---- MODULE Spec2Model ----
(***************************************************************************)
(* Model of the polling and multi-key rate-limited client engine of the    *)
(* fr24-discord-bot: the per-key limiter (_RateLimiter), the pool pacing   *)
(* limiter (_SpacingLimiter), the key pool of Fr24Client (park, unpark,    *)
(* select, _call), the notification ledger protocol of _process_flights    *)
(* and the batch / per-code fallback ladder of poll_once.                  *)
(*                                                                         *)
(* Time is an integer clock `now` counted in ticks; time.time() and        *)
(* time.monotonic() advance together.  A coroutine is a client record with *)
(* a program counter; one action is one run of a coroutine between two     *)
(* suspension points (await asyncio.sleep, await of a held lock, await of  *)
(* the executor).                                                          *)
(***************************************************************************)
EXTENDS Integers, Sequences, FiniteSets, TLC

\* ------------------------------------------------------------------ bounds
MaxTime == 5
PoolMaxTime == 4
MaxCalls == 2
MaxAdmin == 2

\* --------------------------------------------------------- program constants
\* _RateLimiter.__init__: window, request budget and padding, in ticks.
WindowSeconds == 2
MaxRequestsPerMin == 1
PaddingSeconds == 2
\* Fr24Client._call: cooldown applied on RateLimitError (60 s = one window).
CooldownSeconds == 2
\* commands/key_parking.py: _PARK_DURATION (24 h, here a few ticks)
ParkDuration == 2

None == -1

\* the bound on the subscriptions stored before a cycle builds its batches
MaxBatchSubs == 4

\* the bound on the events of one response
MaxEvents == 2

\* the bound on the fetches of one event record
MaxFetches == 2

\* the bound on the recipients of one message
MaxRecipients == 6

\* _build_notification_content: `limit: int = 2000`, scaled to the lengths of the model
ContentLimit == 48

Clients == {1, 2}
Poller == 1

Max2(a, b) == IF a >= b THEN a ELSE b
Min2(a, b) == IF a <= b THEN a ELSE b

\* _RateLimiter.__init__: self._min_interval
MinInterval == (WindowSeconds \div Max2(1, MaxRequestsPerMin)) + PaddingSeconds

VARIABLES
    now,            \* the clock
    key_count,      \* len(Fr24Client._keys)
    lim,            \* per key: the _RateLimiter fields
    limLock,        \* per key: holder of _RateLimiter._lock (0 = free)
    cl,             \* per client: position inside _RateLimiter.wait / _call
    snap,           \* result of the last _RateLimiter.snapshot
    prevPermit,     \* per key: time of the permit before the last one (history)
    lastPermit,     \* per key: time of the last permit granted by wait()
    parked_until,   \* per key: _KeyState.parked_until (None = unset)
    parked_reason,  \* per key: _KeyState.parked_reason
    pool_limiter,   \* Fr24Client._pool_limiter: a _SpacingLimiter, or NoPoolLimiter for None
    pool_wait,      \* "none", "waiting" (a caller sleeps in the pool limiter), "stale" (that limiter was replaced)
    rr_index,       \* Fr24Client._rr_index
    reqs,           \* history: the provider requests issued by _call
    result,         \* the Fr24Response of the last finished _call
    qres,           \* the value a pool query returned, while it is the last step taken
    nCalls,         \* number of _call invocations started
    nAdmin,         \* number of park / unpark commands issued
    selHist,        \* history: the keys returned by direct _select_key calls
    ledger,         \* the rows of table notification_log (survives a restart)
    subscribed,     \* the ids of the subscriptions stored for the polled code
    pf,             \* the position of the running _process_flights call
    sends,          \* history: per (subscription, flight id), the successful sends
    logs,           \* history: per (subscription, flight id), the log_notifications calls
    cleanup_at,     \* the time at which cleanup_loop runs next
    nCycles,        \* number of _process_flights calls started
    nRestarts,      \* number of process restarts
    trail,          \* history: the ledger reads, sends and ledger writes of the last _process_flights call
    cy,             \* the position of the running poll_once call
    creq,           \* history: the fetch calls of the cycle, with their results
    processed,      \* history: the _process_flights calls of the cycle
    notices,        \* history: the operator notices of the cycle
    nCycleRuns,     \* number of poll_once calls started
    rlNotices,      \* history: per poll_once call, its rate-limit notices so far
    enabled,        \* PollerState._enabled_event is set
    interval_seconds, \* PollerState._interval_seconds
    wake_event,     \* PollerState._wake_event is set
    lp,             \* the position of poll_loop, with the history of its current sleep
    flight,         \* the flight _is_airport_alert_eligible is called with
    alert_eligible, \* "yes" / "no": that call returned True / False ("none" before it returns)
    ap,             \* the position of poll_once in its airport stage, with what it built
    nc,             \* the arguments of a _build_notification_content call and what it returned
    fq,             \* an event record of the provider and the history of its fetches, with the identity of each
    bt,             \* the stored subscriptions of a cycle and the batches poll_once built from them
    dx              \* a batch, the events of its response, and the _process_flights calls made for them

limVars == <<lim, limLock, snap, prevPermit, lastPermit>>

\* the variables of the client engine
engineVars == <<now, key_count, lim, limLock, cl, snap, prevPermit, lastPermit, parked_until,
                parked_reason, pool_limiter, pool_wait, rr_index, reqs, result,
                qres, nCalls, nAdmin>>

\* the variables of _process_flights, cleanup_loop and the ledger
notifyVars == <<ledger, subscribed, pf, sends, logs, cleanup_at, nCycles, nRestarts, trail>>

\* the variables of PollerState and poll_loop
loopVars == <<enabled, interval_seconds, wake_event, lp>>

\* the variables of _is_airport_alert_eligible
eligVars == <<flight, alert_eligible>>

\* the variables of the airport stage of poll_once
airportVars == <<ap>>

\* the variables of the helpers that build a message text
textVars == <<nc, fq, bt, dx>>

\* the variables of poll_once
cycleVars == <<cy, creq, processed, notices, nCycleRuns, rlNotices>>

\* -------------------------------------------------------------- _RateLimiter
NewRateLimiter == [next_at |-> 0, cooldown_until |-> 0, recent |-> <<>>]

RECURSIVE PruneSeq(_, _)
PruneSeq(recent, cutoff) ==
    IF recent # <<>> /\ Head(recent) <= cutoff
    THEN PruneSeq(Tail(recent), cutoff)
    ELSE recent

\* _RateLimiter._prune
Prune(rec, t) == [rec EXCEPT !.recent = PruneSeq(rec.recent, t - WindowSeconds)]

\* _RateLimiter.wait, last statements: record the permit and release.
WaitGrant(rec, t) ==
    [pc |-> "granted", wake |-> t,
     rec |-> [rec EXCEPT !.next_at = t + MinInterval,
                         !.recent = Append(rec.recent, t)]]

\* the permit is recorded without looking at _next_at
WaitNextUnchecked(rec, t) == WaitGrant(rec, t)

\* _RateLimiter.wait: `if now < self._next_at: await asyncio.sleep(...)`
WaitNext(rec, t) ==
    IF t < rec.next_at
    THEN [pc |-> "sleep_next", wake |-> rec.next_at, rec |-> rec]
    ELSE WaitGrant(rec, t)

\* _RateLimiter.wait: the request-window check (after _prune)
WaitWindow(rec, t) ==
    LET p == Prune(rec, t) IN
    IF Len(p.recent) >= MaxRequestsPerMin /\ (Head(p.recent) + WindowSeconds) - t > 0
    THEN [pc |-> "sleep_window", wake |-> Head(p.recent) + WindowSeconds, rec |-> p]
    ELSE WaitNext(p, t)

\* _RateLimiter.wait: entry, taken with the lock: the cooldown check
WaitCooldown(rec, t) ==
    IF t < rec.cooldown_until
    THEN [pc |-> "sleep_cooldown", wake |-> rec.cooldown_until, rec |-> rec]
    ELSE WaitWindow(rec, t)

\* _RateLimiter.wait: continuation after one of its three sleeps returned
WaitResume(pc, rec, t) ==
    CASE pc = "sleep_cooldown" -> WaitWindow(rec, t)
      [] pc = "sleep_window"   -> WaitNext(Prune(rec, t), t)
      [] pc = "sleep_next"     -> WaitGrant(rec, t)

\* a cooldown that leaves the limiter as it was
CooldownNone(rec, t, seconds) == rec

\* a cooldown that sets both times from its own argument alone
CooldownOverwrite(rec, t, seconds) ==
    IF seconds <= 0 THEN rec
    ELSE [next_at |-> t + seconds + MinInterval, cooldown_until |-> t + seconds, recent |-> rec.recent]

\* _RateLimiter.cooldown
CooldownRec(rec, t, seconds) ==
    IF seconds <= 0 THEN rec
    ELSE LET until == t + seconds IN
         [next_at |-> IF until > rec.next_at THEN until + MinInterval ELSE rec.next_at,
          cooldown_until |-> IF until > rec.cooldown_until THEN until ELSE rec.cooldown_until,
          recent |-> rec.recent]

\* _RateLimiter.snapshot: the returned dict
SnapshotOf(rec, t) ==
    [recent |-> Len(Prune(rec, t).recent),
     min_interval |-> MinInterval,
     next_in |-> Max2(0, rec.next_at - t),
     cooldown_in |-> Max2(0, rec.cooldown_until - t)]

SleepPcs == {"sleep_cooldown", "sleep_window", "sleep_next"}

\* --------------------------------------------------------- _SpacingLimiter
\* _SpacingLimiter.__init__
NewSpacingLimiter(min_interval) ==
    [on |-> TRUE, min_interval |-> Max2(0, min_interval), next_at |-> 0]

\* `self._pool_limiter = None`
NoPoolLimiter == [on |-> FALSE, min_interval |-> 0, next_at |-> 0]

\* `key.parked_reason = None`
NoReason == "none"

\* ---------------------------------------------------------------- Fr24Client
\* The engine state as one value, so that the code between two suspension
\* points is one function of it.
Eng ==
    [n |-> key_count, parked_until |-> parked_until, parked_reason |-> parked_reason,
     pool |-> pool_limiter, pool_wait |-> pool_wait, rr |-> rr_index,
     lim |-> lim]

\* Python truthiness of `key.parked_until` (None and 0.0 are false)
Truthy(p) == p # None /\ p # 0

\* the indices of self._keys
KeysOf(e) == 0 .. (e.n - 1)

Keys == 0 .. (key_count - 1)

\* `key.parked_until and key.parked_until > now`
IsParked(e, k, t) == Truthy(e.parked_until[k]) /\ e.parked_until[k] > t

\* `key.parked_until and key.parked_until <= now`
IsExpired(e, k, t) == Truthy(e.parked_until[k]) /\ e.parked_until[k] <= t

\* Fr24Client._active_key_count_locked
ActiveKeyCountLocked(e, t) ==
    Cardinality({k \in KeysOf(e) : ~Truthy(e.parked_until[k]) \/ e.parked_until[k] <= t})

SetMin(S) == CHOOSE x \in S : \A y \in S : x <= y

\* the time until the last park expiry
NextUnparkInLatest(e, t) ==
    LET candidates == {e.parked_until[k] : k \in {j \in KeysOf(e) : IsParked(e, j, t)}} IN
    IF candidates = {} THEN None
    ELSE Max2(0, (CHOOSE x \in candidates : \A y \in candidates : x >= y) - t)

\* Fr24Client._next_unpark_in_locked
NextUnparkInLocked(e, t) ==
    LET candidates == {e.parked_until[k] : k \in {j \in KeysOf(e) : IsParked(e, j, t)}} IN
    IF candidates = {} THEN None ELSE Max2(0, SetMin(candidates) - t)

\* expired parks are left in place
ClearNothing(e, t) == e

\* Fr24Client._clear_expired_parks_locked: the return value ...
ClearChanged(e, t) == \E k \in KeysOf(e) : IsExpired(e, k, t)

\* ... and the state it leaves
ClearExpiredParksLocked(e, t) ==
    [e EXCEPT !.parked_until = [k \in KeysOf(e) |-> IF IsExpired(e, k, t) THEN None ELSE e.parked_until[k]],
              !.parked_reason = [k \in KeysOf(e) |-> IF IsExpired(e, k, t) THEN NoReason ELSE e.parked_reason[k]]]

\* Fr24Client._refresh_pool_limiter_locked: a fresh limiter object replaces
\* the old one; a caller sleeping in the old object keeps the old object.
RefreshPoolLimiterLocked(e, active_count) ==
    LET replaced == IF e.pool_wait = "waiting" THEN "stale" ELSE e.pool_wait IN
    IF active_count <= 1
    THEN [e EXCEPT !.pool = NoPoolLimiter, !.pool_wait = replaced]
    ELSE [e EXCEPT !.pool = NewSpacingLimiter(MinInterval \div active_count),
                   !.pool_wait = replaced]

\* Fr24Client.active_key_count
ActiveKeyCount(e, t) ==
    LET c == ClearExpiredParksLocked(e, t)
        count == ActiveKeyCountLocked(c, t)
    IN [count |-> count,
        e |-> IF ClearChanged(e, t) THEN RefreshPoolLimiterLocked(c, count) ELSE c]

\* Fr24Client.next_unpark_in
NextUnparkIn(e, t) ==
    LET c == ClearExpiredParksLocked(e, t) IN
    [value |-> NextUnparkInLocked(c, t), e |-> c]

\* Fr24Client.park_key_by_index (index in range)
ParkKeyByIndex(e, t, index, until_epoch, reason) ==
    LET c == ClearExpiredParksLocked(e, t)
        before == ActiveKeyCountLocked(c, t)
        p == [c EXCEPT !.parked_until[index] = Max2(until_epoch, t),
                       !.parked_reason[index] = reason]
        after == ActiveKeyCountLocked(p, t)
    IN IF after # before THEN RefreshPoolLimiterLocked(p, after) ELSE p

\* Fr24Client.unpark_key_by_index (index in range)
UnparkKeyByIndex(e, t, index) ==
    LET c == ClearExpiredParksLocked(e, t)
        before == ActiveKeyCountLocked(c, t)
        p == [c EXCEPT !.parked_until[index] = None,
                       !.parked_reason[index] = NoReason]
        after == ActiveKeyCountLocked(p, t)
    IN IF after # before THEN RefreshPoolLimiterLocked(p, after) ELSE p

Inf == 1000

\* the wait of a key is taken from its limiter whether it is parked or not
WaitForIgnoringPark(e, k, t) ==
    LET s == SnapshotOf(e.lim[k], t) IN Max2(s.next_in, s.cooldown_in)

\* Fr24Client._select_key: statuses[idx][2], the wait of each key
WaitFor(e, k, t) ==
    IF IsParked(e, k, t) THEN Inf
    ELSE LET s == SnapshotOf(e.lim[k], t) IN Max2(s.next_in, s.cooldown_in)

\* the scan starts at the first key instead of the cursor
PickIndexFromZero(waits, rr, best_wait, n) ==
    LET offsets == {o \in 0 .. (n - 1) : waits[o] = best_wait} IN
    IF offsets = {} THEN 0 ELSE SetMin(offsets)

\* Fr24Client._select_key: the rotating scan from _rr_index for a key whose
\* wait is within the tolerance of best_wait
PickIndex(waits, rr, best_wait, n) ==
    LET offsets == {o \in 0 .. (n - 1) : waits[(rr + o) % n] = best_wait} IN
    IF offsets = {} THEN 0 ELSE (rr + SetMin(offsets)) % n

\* Fr24Client._select_key
SelectKey(e, t) ==
    LET c == ClearExpiredParksLocked(e, t)
        changed == ClearChanged(e, t)
        active == {k \in KeysOf(e) : ~IsParked(c, k, t)}
        waits == [k \in KeysOf(e) |-> WaitFor(c, k, t)]
        \* limiter.snapshot() prunes the deque of every key it looks at
        pruned == [c EXCEPT !.lim = [k \in KeysOf(e) |-> IF k \in active THEN Prune(c.lim[k], t) ELSE c.lim[k]]]
    IN IF active = {}
       THEN [ok |-> FALSE, key |-> None, wait |-> None,
             retry_after |-> NextUnparkInLocked(c, t),
             e |-> IF changed THEN RefreshPoolLimiterLocked(pruned, 0) ELSE pruned]
       ELSE LET best_wait == SetMin({waits[k] : k \in active})
                selected_idx == PickIndex(waits, c.rr, best_wait, c.n)
            IN [ok |-> TRUE, key |-> selected_idx, wait |-> best_wait,
                retry_after |-> None,
                e |-> [pruned EXCEPT !.rr = (selected_idx + 1) % c.n]]

\* ------------------------------------------------------ Fr24Client._call
\* The state one run of _call reads and writes.
CallState ==
    [e |-> Eng, c |-> cl[Poller], lock |-> limLock, reqs |-> reqs,
     prevPermit |-> prevPermit, lastPermit |-> lastPermit, result |-> result]

\* what _select_key saw of the key it returned: the clock, the key's parked_until
\* as stored when the lock was taken, and the keys whose expired park it cleared
NoSel == [t |-> None, parked_until |-> None, cleared |-> {}]

IdleClient == [pc |-> "idle", key |-> None, wake |-> 0, sel |-> NoSel]

Response(kind, key, retry_after) == [kind |-> kind, key |-> key, retry_after |-> retry_after]

\* _call returns: the coroutine is finished
CallFinish(cs, res) == [cs EXCEPT !.c = IdleClient, !.result = res]

\* _call after key_state.limiter.wait() returned: the request goes to the
\* executor (asyncio.to_thread) without another suspension in between.
CallIssue(cs, t, k) ==
    [cs EXCEPT !.c = [cs.c EXCEPT !.pc = "request", !.key = k, !.wake = t],
               !.lock[k] = 0,
               !.prevPermit[k] = cs.lastPermit[k],
               !.lastPermit[k] = t,
               !.reqs = Append(cs.reqs,
                               [t |-> t, key |-> k,
                                active |-> ActiveKeyCountLocked(cs.e, t),
                                parked |-> IsParked(cs.e, k, t)])]

\* _call: the outcome w of a step of key_state.limiter.wait()
CallKeyStep(cs, t, k, w) ==
    LET cs1 == [cs EXCEPT !.e.lim[k] = w.rec] IN
    IF w.pc = "granted"
    THEN CallIssue(cs1, t, k)
    ELSE [cs1 EXCEPT !.c = [cs.c EXCEPT !.pc = w.pc, !.key = k, !.wake = w.wake],
                     !.lock[k] = Poller]

\* _call: `key_state, _ = await self._select_key()` and what follows
CallSelect(cs, t) ==
    LET s == SelectKey(cs.e, t)
        cs1 == [cs EXCEPT !.e = s.e,
                          !.c.sel = [t |-> t,
                                     parked_until |-> IF s.ok THEN cs.e.parked_until[s.key] ELSE None,
                                     cleared |-> {k \in KeysOf(cs.e) : IsExpired(cs.e, k, t)}]]
    IN IF ~s.ok
       THEN CallFinish(cs1, Response("no_active_keys", None, s.retry_after))
       ELSE CallKeyStep(cs1, t, s.key, WaitCooldown(s.e.lim[s.key], t))

\* _call: `if self._pool_limiter: waited = await self._pool_limiter.wait()`
CallPool(cs, t) ==
    IF ~cs.e.pool.on
    THEN CallSelect(cs, t)
    ELSE IF t < cs.e.pool.next_at
         THEN [cs EXCEPT !.c = [cs.c EXCEPT !.pc = "pool_sleep", !.wake = cs.e.pool.next_at],
                         !.e.pool_wait = "waiting"]
         ELSE CallSelect([cs EXCEPT !.e.pool.next_at = t + cs.e.pool.min_interval], t)

\* _call: _SpacingLimiter.wait after its sleep, then
\* `await self._pool_limiter.snapshot()` on whatever the attribute holds now
CallPoolResume(cs, t) ==
    IF cs.e.pool_wait = "waiting"
    THEN CallSelect([cs EXCEPT !.e.pool.next_at = t + cs.e.pool.min_interval,
                               !.e.pool_wait = "none"], t)
    ELSE LET cs1 == [cs EXCEPT !.e.pool_wait = "none"] IN
         IF ~cs.e.pool.on
         THEN CallFinish(cs1, Response("exception", None, None))
         ELSE CallSelect(cs1, t)

\* _call from its first statement
CallStart(cs, t) ==
    LET a == ActiveKeyCount(cs.e, t)
        cs1 == [cs EXCEPT !.e = a.e]
    IN IF a.count <= 0
       THEN LET n == NextUnparkIn(a.e, t) IN
            CallFinish([cs1 EXCEPT !.e = n.e], Response("no_active_keys", None, n.value))
       ELSE CallPool(cs1, t)

\* _call: the executor returned or raised
CallOutcome(cs, t, outcome) ==
    LET k == cs.c.key IN
    CASE outcome = "ok" -> CallFinish(cs, Response("ok", k, None))
      [] outcome = "rate_limited" ->
            CallFinish([cs EXCEPT !.e.lim[k] = CooldownRec(cs.e.lim[k], t, CooldownSeconds)],
                       Response("rate_limited", k, None))
      [] outcome = "transport_error" ->
            CallFinish([cs EXCEPT !.e.lim[k] = Prune(cs.e.lim[k], t)],
                       Response("error", k, None))

Outcomes == {"ok", "rate_limited", "transport_error"}

\* write an engine value back to the variables
SetEng(e) ==
    /\ parked_until' = e.parked_until
    /\ parked_reason' = e.parked_reason
    /\ pool_limiter' = e.pool
    /\ pool_wait' = e.pool_wait
    /\ rr_index' = e.rr
    /\ lim' = e.lim

SetCall(cs) ==
    /\ SetEng(cs.e)
    /\ cl' = [cl EXCEPT ![Poller] = cs.c]
    /\ limLock' = cs.lock
    /\ reqs' = cs.reqs
    /\ prevPermit' = cs.prevPermit
    /\ lastPermit' = cs.lastPermit
    /\ result' = cs.result

NoQuery == [op |-> "none", value |-> None, cleared |-> {}]

\* ---------------------------------------------------------------- poll_once
MaxCycleRuns == 2

\* config.fr24_aircraft_batch_size and config.fr24_airport_batch_size
AircraftBatchSize == 2
AirportBatchSize == 2

\* an error text is kept as the set of the substrings of interest that its
\* lower-cased form contains; the empty set is `error=None`
NoError == {}

\* Fr24Client.is_param_error: tokens
ParamTokens ==
    {"badrequest", "bad request", "validation", "pydantic", "invalid format",
     "list_type", "pattern"}

\* no error text is taken for parameter-shaped
IsParamErrorNever(error) == FALSE

\* Fr24Client.is_param_error
IsParamError(error) == error # NoError /\ (error \cap ParamTokens) # {}

\* Fr24Response as poll_once reads it; hits are the codes of the request for
\* which the response holds flights; raised stands for an exception leaving
\* the fetch call instead of a response
Fr24Response(error, rate_limited, no_active_keys, hits) ==
    [error |-> error, rate_limited |-> rate_limited, no_active_keys |-> no_active_keys,
     hits |-> hits, raised |-> FALSE]

Raised == [Fr24Response(NoError, FALSE, FALSE, {}) EXCEPT !.raised = TRUE]

\* the error responses _call builds: RateLimitError, a rejected parameter
\* (`except Exception`), TransportError, and every key parked
ErrorResponses ==
    {Fr24Response({"ratelimiterror"}, TRUE, FALSE, {}),
     Fr24Response({"badrequest", "validation"}, FALSE, FALSE, {}),
     Fr24Response({"transporterror"}, FALSE, FALSE, {}),
     Fr24Response({"no active fr24 api keys"}, FALSE, TRUE, {})}

\* what a fetch for `codes` can come back with
ResponsesFor(codes) ==
    {Fr24Response(NoError, FALSE, FALSE, h) : h \in SUBSET codes}
        \cup ErrorResponses \cup {Raised}

\* every code goes into one batch, whatever the size
ChunkedWhole(values, size) == <<values>>

\* poller._chunked
RECURSIVE Chunked(_, _)
Chunked(values, size) ==
    IF size <= 0 THEN <<values>>
    ELSE IF values = <<>> THEN <<>>
    ELSE <<SubSeq(values, 1, Min2(size, Len(values)))>>
            \o Chunked(SubSeq(values, size + 1, Len(values)), size)

Range(q) == {q[i] : i \in 1 .. Len(q)}

\* the subscriptions a cycle finds: aircraft codes, 3/4-letter airport request
\* codes and 2-letter country codes, in the order of their groups
SubscriptionSets ==
    {[aircraft |-> <<"A1", "A2", "A3">>, airports |-> <<"P1">>, countries |-> <<"CC">>],
     [aircraft |-> <<"A1">>, airports |-> <<>>, countries |-> <<>>],
     [aircraft |-> <<>>, airports |-> <<>>, countries |-> <<>>]}

CyIdle ==
    [pc |-> "idle", stage |-> "none", aircraft_batches |-> <<>>, batches |-> <<>>,
     country_codes |-> <<>>, bi |-> 0, ci |-> 0, rate_limit_notified |-> FALSE]

\* the state one step of poll_once reads and writes
Cyc == [cy |-> cy, creq |-> creq, processed |-> processed, notices |-> notices]

\* the batches of the stage the cycle is in
StageBatches(c) == IF c.stage = "aircraft" THEN c.aircraft_batches ELSE c.batches

\* `result = await fr24.fetch_...(...)`: the call is made and the cycle waits
CyIssue(k, pc, stage, bi, ci, codes) ==
    [k EXCEPT !.cy.pc = pc, !.cy.stage = stage, !.cy.bi = bi, !.cy.ci = ci,
              !.creq = Append(k.creq, [kind |-> pc, stage |-> stage, bi |-> bi, codes |-> codes,
                                       done |-> FALSE,
                                       res |-> Fr24Response(NoError, FALSE, FALSE, {})])]

\* `for country_code in country_codes:` from its i-th element; the end of poll_once
CySeekCountry(k, i) ==
    IF i <= Len(k.cy.country_codes)
    THEN CyIssue(k, "country", "country", i, 0, <<k.cy.country_codes[i]>>)
    ELSE [k EXCEPT !.cy.pc = "done", !.cy.stage = "none", !.cy.bi = 0, !.cy.ci = 0]

\* the batches of a kind are taken from the last one to the first
CySeekBatchBackwards(k, stage, bi) ==
    IF stage = "aircraft" /\ bi <= Len(k.cy.aircraft_batches)
    THEN CyIssue(k, "batch", "aircraft", bi, 0,
                 k.cy.aircraft_batches[Len(k.cy.aircraft_batches) + 1 - bi])
    ELSE LET b == IF stage = "aircraft" THEN 1 ELSE bi IN
         IF b <= Len(k.cy.batches)
         THEN CyIssue(k, "batch", "airport", b, 0, k.cy.batches[Len(k.cy.batches) + 1 - b])
         ELSE CySeekCountry(k, 1)

\* `for batch in aircraft_batches:` / `for batch in batches:` from the bi-th batch
CySeekBatch(k, stage, bi) ==
    IF stage = "aircraft" /\ bi <= Len(k.cy.aircraft_batches)
    THEN CyIssue(k, "batch", "aircraft", bi, 0, k.cy.aircraft_batches[bi])
    ELSE LET b == IF stage = "aircraft" THEN 1 ELSE bi IN
         IF b <= Len(k.cy.batches)
         THEN CyIssue(k, "batch", "airport", b, 0, k.cy.batches[b])
         ELSE CySeekCountry(k, 1)

\* the per-code loop of a batch from its ci-th code
CyFallbackNext(k, ci) ==
    LET batch == StageBatches(k.cy)[k.cy.bi] IN
    IF ci <= Len(batch)
    THEN CyIssue(k, "code", k.cy.stage, k.cy.bi, ci, <<batch[ci]>>)
    ELSE CySeekBatch(k, k.cy.stage, k.cy.bi + 1)

\* sub["guild_id"] of the subscriptions of a group, and the guilds of
\* channel_map: guild 3 has no notify channel
GroupGuilds(code) ==
    CASE code = "A1" -> {1} [] code = "A2" -> {2, 3} [] code = "A3" -> {1}
      [] code = "P1" -> {2} [] OTHER -> {3}
ChannelGuilds == {1, 2}

\* _notify_poll_error: the guilds a notice is sent to, with bot_owner_ids set
NotifyPollError(guild_ids) == guild_ids \cap ChannelGuilds

\* the text of an error notice carries result.error of the request just answered
NoticeError(k, kind) ==
    IF kind \in {"batch_error", "code_error", "country_error"} THEN k.creq[Len(k.creq)].res.error
    ELSE NoError

\* the notice goes to every guild that has a channel
CyNotifyBroadcast(k, kind, codes, fallback) ==
    [k EXCEPT !.notices = Append(k.notices, [kind |-> kind, stage |-> k.cy.stage,
                                             codes |-> codes, fallback |-> fallback,
                                             error |-> NoticeError(k, kind),
                                             guilds |-> ChannelGuilds])]

\* _notify_poll_error called for the groups of `codes`
CyNotify(k, kind, codes, fallback) ==
    [k EXCEPT !.notices = Append(k.notices, [kind |-> kind, stage |-> k.cy.stage,
                                             codes |-> codes, fallback |-> fallback,
                                             error |-> NoticeError(k, kind),
                                             guilds |-> NotifyPollError(
                                                 UNION {GroupGuilds(c) : c \in Range(codes)})])]

\* the rate-limit notice is sent whatever rate_limit_notified says
CyNotifyRateLimitAlways(k, codes) ==
    [CyNotify(k, "rate_limit", codes, FALSE) EXCEPT !.cy.rate_limit_notified = TRUE]

\* `if not rate_limit_notified: await _notify_poll_error(...); rate_limit_notified = True`
CyNotifyRateLimit(k, codes) ==
    IF k.cy.rate_limit_notified THEN k
    ELSE [CyNotify(k, "rate_limit", codes, FALSE) EXCEPT !.cy.rate_limit_notified = TRUE]

\* _process_flights is called for the groups, in order, the response has flights for
RECURSIVE CyProcessHits(_, _, _, _)
CyProcessHits(k, codes, hits, i) ==
    IF i > Len(codes) THEN k
    ELSE CyProcessHits(
            IF codes[i] \in hits
            THEN [k EXCEPT !.processed = Append(k.processed,
                      [stage |-> k.cy.stage, code |-> codes[i], req |-> Len(k.creq),
                       flights |-> TRUE])]
            ELSE k,
            codes, hits, i + 1)

\* a rate-limited batch is handed to the per-code loop
BatchVerdictFallbackOnLimit(r) ==
    IF r.error = NoError THEN "process"
    ELSE IF r.rate_limited \/ IsParamError(r.error) THEN "fallback"
    ELSE "error"

\* poll_once: the branch a batch result takes
BatchVerdict(r) ==
    IF r.error = NoError THEN "process"
    ELSE IF r.rate_limited THEN "rate_limited"
    ELSE IF IsParamError(r.error) THEN "fallback"
    ELSE "error"

\* poll_once: the result of a batched request arrives
CyBatchReturn(k, r) ==
    LET batch == StageBatches(k.cy)[k.cy.bi]
        verdict == BatchVerdict(r)
    IN CASE verdict = "process" ->
                CySeekBatch(CyProcessHits(k, batch, r.hits, 1), k.cy.stage, k.cy.bi + 1)
         [] verdict = "rate_limited" ->
                CySeekBatch(CyNotifyRateLimit(k, batch), k.cy.stage, k.cy.bi + 1)
         [] verdict = "fallback" ->
                CyFallbackNext(CyNotify(k, "batch_error", batch, TRUE), 1)
         [] verdict = "error" ->
                CySeekBatch(CyNotify(k, "batch_error", batch, FALSE), k.cy.stage, k.cy.bi + 1)

\* the result of a single-code request arrives: `continue` on an error, else
\* _process_flights with all flights of the response
CySingleReturn(k, r, kind) ==
    LET code == k.creq[Len(k.creq)].codes IN
    IF r.error # NoError
    THEN IF r.rate_limited THEN CyNotifyRateLimit(k, code)
         ELSE CyNotify(k, kind, code, FALSE)
    ELSE [k EXCEPT !.processed = Append(k.processed,
             [stage |-> k.cy.stage, code |-> code[1], req |-> Len(k.creq),
              flights |-> r.hits # {}])]

\* poll_loop: `except Exception` around poll_once
CyRaise(k) ==
    [CyNotify(k, "loop_failed", <<>>, FALSE) EXCEPT
        !.cy.pc = "failed", !.notices[Len(k.notices) + 1].guilds = ChannelGuilds]

\* poll_once from the await of a fetch call to the next one
CyReturn(k, r) ==
    LET k1 == [k EXCEPT !.creq[Len(k.creq)].done = TRUE, !.creq[Len(k.creq)].res = r] IN
    IF r.raised THEN CyRaise(k1)
    ELSE CASE k.cy.pc = "batch" -> CyBatchReturn(k1, r)
           [] k.cy.pc = "code" -> CyFallbackNext(CySingleReturn(k1, r, "code_error"), k.cy.ci + 1)
           [] k.cy.pc = "country" -> CySeekCountry(CySingleReturn(k1, r, "country_error"), k.cy.bi + 1)

\* `subs = await db.fetch_subscriptions()` found no row
NoSubscriptions(subs) == subs.aircraft = <<>> /\ subs.airports = <<>> /\ subs.countries = <<>>

\* a cycle that finds no subscription tells the operators so
CyBeginReported(k, subs) ==
    IF NoSubscriptions(subs)
    THEN [CyNotify(k, "no_subscriptions", <<>>, FALSE) EXCEPT !.cy.pc = "done"]
    ELSE CySeekBatch([k EXCEPT !.cy.aircraft_batches = Chunked(subs.aircraft, AircraftBatchSize),
                               !.cy.batches = Chunked(subs.airports, AirportBatchSize),
                               !.cy.country_codes = subs.countries], "aircraft", 1)

\* poll_once from its start to its first fetch call: `if not subs: return`,
\* else grouping, chunking and the first batch
CyBegin(k, subs) ==
    IF NoSubscriptions(subs) THEN [k EXCEPT !.cy.pc = "done"]
    ELSE CySeekBatch([k EXCEPT !.cy.aircraft_batches = Chunked(subs.aircraft, AircraftBatchSize),
                               !.cy.batches = Chunked(subs.airports, AirportBatchSize),
                               !.cy.country_codes = subs.countries], "aircraft", 1)

\* the _notify_poll_error calls among `ns` that report a rate limit
RateLimitNotices(ns) == Cardinality({i \in 1 .. Len(ns) : ns[i].kind = "rate_limit"})

SetCyc(k) ==
    /\ cy' = k.cy
    /\ creq' = k.creq
    /\ processed' = k.processed
    /\ notices' = k.notices

InitCycle ==
    /\ cy = CyIdle
    /\ creq = <<>>
    /\ processed = <<>>
    /\ notices = <<>>
    /\ nCycleRuns = 0
    /\ rlNotices = <<>>

\* poll_loop calls poll_once, which runs to its first fetch call
PollOnce(subs) ==
    /\ cy.pc \in {"idle", "done", "failed"}
    /\ nCycleRuns < MaxCycleRuns
    /\ nCycleRuns' = nCycleRuns + 1
    /\ rlNotices' = Append(rlNotices, 0)
    /\ SetCyc(CyBegin([cy |-> CyIdle, creq |-> <<>>, processed |-> <<>>, notices |-> <<>>], subs))
    /\ UNCHANGED <<engineVars, selHist, loopVars, eligVars, textVars, airportVars, notifyVars>>

\* the fetch call poll_once waits for returns r (or raises)
FetchReturn(r) ==
    /\ cy.pc \in {"batch", "code", "country"}
    /\ r \in ResponsesFor(Range(creq[Len(creq)].codes))
    /\ SetCyc(CyReturn(Cyc, r))
    /\ rlNotices' = [rlNotices EXCEPT ![Len(rlNotices)] = RateLimitNotices(notices')]
    /\ UNCHANGED <<engineVars, selHist, loopVars, eligVars, textVars, airportVars, notifyVars, nCycleRuns>>

\* ------------------------------------------------- the notification ledger
MaxCycles == 2
MaxRestarts == 1

\* ------------------------------------------- _is_airport_alert_eligible
\* `distance_km > 10.0`, in metres
DistanceLimitM == 10000
\* `(eta - now).total_seconds() >= 30 * 60`
EtaLimitSeconds == 1800

\* the flights the heuristic is given: whether the destination and origin code
\* sets intersect, whether both resolve to the same airport, altitude, ground
\* speed and vertical speed (None when absent), whether lat/lon are present,
\* whether the destination resolves to a reference, whether that reference
\* has coordinates, the haversine distance to it in metres, and the seconds
\* from now to the ETA (None when no ETA can be parsed); vspeed stands for
\* abs(vspeed)
Flights ==
    {f \in [same_codes : BOOLEAN, same_ref : BOOLEAN,
             altitude : {None, 0, 200, 201}, speed : {None, 0, 30, 31}, vspeed : {None, 200, 201},
             position : BOOLEAN, dest_ref : BOOLEAN, dest_coords : BOOLEAN,
             distance_m : {DistanceLimitM - 1, DistanceLimitM, DistanceLimitM + 1},
             eta_in : {None, EtaLimitSeconds - 1, EtaLimitSeconds}] :
        /\ f.dest_coords => f.dest_ref
        /\ f.same_ref => f.dest_ref}

\* poller._is_on_ground_like
IsOnGroundLike(f) ==
    IF f.altitude = None \/ f.speed = None THEN FALSE
    ELSE IF f.altitude > 200 \/ f.speed > 30 THEN FALSE
    ELSE IF f.vspeed # None /\ f.vspeed > 200 THEN FALSE
    ELSE TRUE

\* poller._is_stationary_zero
IsStationaryZero(f) ==
    /\ f.altitude = None \/ f.altitude = 0
    /\ f.speed = None \/ f.speed = 0

\* the destination resolves to a reference whose lat and lon are set
HasCoordinates(f) == f.dest_ref /\ f.dest_coords

\* the limit itself counts as far
FarFromDestinationInclusive(distance_m) == distance_m >= DistanceLimitM

\* _is_airport_alert_eligible: `distance_km > 10.0`
FarFromDestination(distance_m) == distance_m > DistanceLimitM

\* an ETA has to be more than the limit away
EtaQualifiesStrict(eta_in) == eta_in # None /\ eta_in > EtaLimitSeconds

\* _is_airport_alert_eligible: `if eta:` and `(eta - now).total_seconds() >= 30 * 60`
EtaQualifies(eta_in) == eta_in # None /\ eta_in >= EtaLimitSeconds

\* poller._is_airport_alert_eligible
IsAirportAlertEligible(f) ==
    IF f.same_codes THEN ~IsStationaryZero(f)
    ELSE IF f.dest_ref /\ f.same_ref THEN ~IsStationaryZero(f)
    ELSE IF ~IsOnGroundLike(f) THEN TRUE
    ELSE IF ~f.position \/ ~HasCoordinates(f) THEN TRUE
    ELSE IF FarFromDestination(f.distance_m) THEN TRUE
    ELSE IF EtaQualifies(f.eta_in) THEN TRUE
    ELSE FALSE

\* config.notification_retention_days and the 24 h period of cleanup_loop, in ticks
RetentionTicks == 2
CleanupEvery == 1

Subs == {1, 2, 3}
Guilds == {1, 2}
FlightIds == {"a", "b"}

\* sub["guild_id"]: subscriptions 1 and 2 belong to guild 1, subscription 3 to guild 2
GuildOf(s) == IF s = 3 THEN 2 ELSE 1

\* sub["user_id"]: subscriptions 1 and 3 are of one user, who is in both
\* guilds, and subscription 2 is of another
UserOf(s) == IF s = 2 THEN "u2" ELSE "u1"

\* an event of a response: whether the dict is empty, whether it has a
\* registration, its identity (_build_flight_id) and the fields the
\* eligibility tests read
Event(empty, registration, id, f) ==
    [empty |-> empty, registration |-> registration, id |-> id, f |-> f]

\* the fields of an airborne flight bound for another airport, and of one
\* that reports altitude 0 and ground speed 0
Airborne ==
    [same_codes |-> FALSE, same_ref |-> FALSE, altitude |-> 201, speed |-> 31, vspeed |-> None,
     position |-> TRUE, dest_ref |-> TRUE, dest_coords |-> TRUE,
     distance_m |-> DistanceLimitM + 1, eta_in |-> None]
Parked == [Airborne EXCEPT !.altitude = 0, !.speed = 0, !.distance_m = DistanceLimitM - 1]

\* poller._has_registration
HasRegistration(e) == e.registration

\* an aircraft event is let through whatever altitude and speed it reports
PassesFiltersAnyMotion(sub_type, e) ==
    /\ ~e.empty
    /\ sub_type = "aircraft" => HasRegistration(e)
    /\ sub_type = "airport" => IsAirportAlertEligible(e.f)

\* _process_flights: the tests an event passes before its identity is built
\* (`if not flight`, the two aircraft tests, the airport test)
PassesFilters(sub_type, e) ==
    /\ ~e.empty
    /\ sub_type = "aircraft" => HasRegistration(e) /\ ~IsStationaryZero(e.f)
    /\ sub_type = "airport" => IsAirportAlertEligible(e.f)

\* an airborne flight with identity id, with or without a registration
Fl(id, eligible) == Event(FALSE, eligible, id, Airborne)

\* the responses considered: one flight, the same flight twice, and a flight
\* that is filtered out before another
Responses ==
    {<<Fl("a", TRUE)>>, <<Fl("a", TRUE), Fl("a", TRUE)>>,
     <<Fl("a", FALSE), Fl("b", TRUE)>>}

RECURSIVE SortedSeq(_)
SortedSeq(S) == IF S = {} THEN <<>> ELSE <<SetMin(S)>> \o SortedSeq(S \ {SetMin(S)})

\* _process_flights: the keys of subs_by_guild in insertion order
GuildOrder(subs) == SortedSeq({GuildOf(x) : x \in subs})

\* Database.fetch_logged_subscription_ids: the ids among `ids` with a row for flight_id
FetchLoggedSubscriptionIds(led, flight_id, ids) ==
    {x \in ids : \E r \in led : r.sub = x /\ r.flight = flight_id}

\* Database.log_notifications: INSERT OR IGNORE of one row per id, stamped now
LogNotifications(led, ids, flight_id, t) ==
    led \cup {[sub |-> x, flight |-> flight_id, at |-> t] :
                 x \in ids \ FetchLoggedSubscriptionIds(led, flight_id, ids)}

\* Database.cleanup_notifications: DELETE ... WHERE notified_at < cutoff
CleanupNotifications(led, cutoff) == {r \in led : ~(r.at < cutoff)}

IdlePf == [pc |-> "idle", sub_type |-> "none", flights |-> <<>>, subs |-> {}, channels |-> {},
           fi |-> 0, gi |-> 0, to_notify |-> {}]

\* _process_flights: the two loops run on, from flight fi and guild gi, to the
\* next `await db.fetch_logged_subscription_ids(...)` or to the end
RECURSIVE PfSeek(_, _, _)
PfSeek(p, fi, gi) ==
    LET guilds == GuildOrder(p.subs) IN
    IF fi > Len(p.flights) THEN IdlePf
    ELSE IF ~PassesFilters(p.sub_type, p.flights[fi]) \/ gi > Len(guilds) THEN PfSeek(p, fi + 1, 1)
    ELSE IF guilds[gi] \notin p.channels THEN PfSeek(p, fi, gi + 1)
    ELSE [p EXCEPT !.pc = "check", !.fi = fi, !.gi = gi, !.to_notify = {}]

\* guild_id of the guild the call stands at
GuildAt(p) == GuildOrder(p.subs)[p.gi]

\* guild_subs of the guild the call stands at
GuildSubs(p) == {x \in p.subs : GuildOf(x) = GuildAt(p)}

\* _process_flights: `user_ids = sorted({sub["user_id"] for sub in to_notify})`
UserIds(to_notify) == {UserOf(x) : x \in to_notify}

\* flight_id of the flight the call stands at
FlightIdAt(p) == p.flights[p.fi].id

\* every subscription of the guild is notified as soon as one is not logged
PfCheckedWholeGuild(p, led) ==
    LET already_logged == FetchLoggedSubscriptionIds(led, FlightIdAt(p), GuildSubs(p))
    IN IF GuildSubs(p) \subseteq already_logged THEN PfSeek(p, p.fi, p.gi + 1)
       ELSE [p EXCEPT !.pc = "send", !.to_notify = GuildSubs(p)]

\* _process_flights: already_logged and to_notify; `if not to_notify: continue`
PfChecked(p, led) ==
    LET already_logged == FetchLoggedSubscriptionIds(led, FlightIdAt(p), GuildSubs(p))
        to_notify == GuildSubs(p) \ already_logged
    IN IF to_notify = {} THEN PfSeek(p, p.fi, p.gi + 1)
       ELSE [p EXCEPT !.pc = "send", !.to_notify = to_notify]

\* the rows are written whatever _send_notification returned
PfSentAlways(p, sent) == [p EXCEPT !.pc = "log"]

\* _process_flights: `if sent: await db.log_notifications(...)`
PfSent(p, sent) == IF sent THEN [p EXCEPT !.pc = "log"] ELSE PfSeek(p, p.fi, p.gi + 1)

\* one more event for every pair (x, flight_id) with x in ids
Count(h, ids, flight_id) ==
    [x \in Subs |-> [f \in FlightIds |->
        IF x \in ids /\ f = flight_id THEN h[x][f] + 1 ELSE h[x][f]]]

InitNotify ==
    /\ ledger = {}
    /\ subscribed = {1, 3}
    /\ pf = IdlePf
    /\ sends = [x \in Subs |-> [f \in FlightIds |-> 0]]
    /\ logs = [x \in Subs |-> [f \in FlightIds |-> 0]]
    /\ cleanup_at = 0
    /\ nCycles = 0
    /\ nRestarts = 0
    /\ trail = <<>>

\* poll_once hands the flights of one response to _process_flights
ProcessFlights(sub_type, flights, channels) ==
    /\ pf.pc = "idle"
    /\ nCycles < MaxCycles
    /\ nCycles' = nCycles + 1
    /\ pf' = PfSeek([IdlePf EXCEPT !.sub_type = sub_type, !.flights = flights,
                                   !.subs = subscribed, !.channels = channels], 1, 1)
    /\ trail' = <<>>
    /\ UNCHANGED <<engineVars, selHist, loopVars, eligVars, textVars, airportVars, cycleVars, ledger, subscribed, sends, logs, cleanup_at, nRestarts>>

\* the ledger read of _process_flights completes
PfCheck ==
    /\ pf.pc = "check"
    /\ pf' = PfChecked(pf, ledger)
    /\ trail' = Append(trail, [op |-> "check", fi |-> pf.fi, guild |-> GuildAt(pf), ids |-> GuildSubs(pf),
                                logged |-> FetchLoggedSubscriptionIds(ledger, FlightIdAt(pf), GuildSubs(pf))])
    /\ UNCHANGED <<engineVars, selHist, loopVars, eligVars, textVars, airportVars, cycleVars, ledger, subscribed, sends, logs, cleanup_at, nCycles, nRestarts>>

\* _send_notification returns: channel.send succeeded or raised
PfSend(sent) ==
    /\ pf.pc = "send"
    /\ pf' = PfSent(pf, sent)
    /\ sends' = IF sent THEN Count(sends, pf.to_notify, FlightIdAt(pf)) ELSE sends
    /\ trail' = Append(trail, [op |-> IF sent THEN "send" ELSE "failed", fi |-> pf.fi,
                                guild |-> GuildAt(pf), ids |-> UserIds(pf.to_notify), logged |-> {}])
    /\ UNCHANGED <<engineVars, selHist, loopVars, eligVars, textVars, airportVars, cycleVars, ledger, subscribed, logs, cleanup_at, nCycles, nRestarts>>

\* db.log_notifications runs
PfLog ==
    /\ pf.pc = "log"
    /\ ledger' = LogNotifications(ledger, pf.to_notify, FlightIdAt(pf), now)
    /\ logs' = Count(logs, pf.to_notify, FlightIdAt(pf))
    /\ pf' = PfSeek(pf, pf.fi, pf.gi + 1)
    /\ trail' = Append(trail, [op |-> "log", fi |-> pf.fi, guild |-> GuildAt(pf), ids |-> pf.to_notify,
                                logged |-> {}])
    /\ UNCHANGED <<engineVars, selHist, loopVars, eligVars, textVars, airportVars, cycleVars, subscribed, sends, cleanup_at, nCycles, nRestarts>>

\* one iteration of cleanup_loop
Cleanup ==
    /\ now >= cleanup_at
    /\ ledger' = CleanupNotifications(ledger, now - RetentionTicks)
    /\ cleanup_at' = now + CleanupEvery
    /\ UNCHANGED <<trail, engineVars, selHist, loopVars, eligVars, textVars, airportVars, cycleVars, subscribed, pf, sends, logs, nCycles, nRestarts>>

\* a /subscribe command stores one more subscription for the code
Subscribe(x) ==
    /\ x \notin subscribed
    /\ subscribed' = subscribed \cup {x}
    /\ UNCHANGED <<trail, engineVars, selHist, loopVars, eligVars, textVars, airportVars, cycleVars, ledger, pf, sends, logs, cleanup_at, nCycles, nRestarts>>

\* the process is stopped and started again: the tasks of bot.py start afresh,
\* the database keeps its rows
Restart ==
    /\ nRestarts < MaxRestarts
    /\ nRestarts' = nRestarts + 1
    /\ pf' = IdlePf
    /\ cleanup_at' = now
    /\ UNCHANGED <<trail, engineVars, selHist, loopVars, eligVars, textVars, airportVars, cycleVars, ledger, subscribed, sends, logs, nCycles>>


\* ------------------------------------------ the airport stage of poll_once
MaxAirportCycles == 2

\* the airports of the reference data: one with both codes
AirportRefs == {[icao |-> "EPWA", iata |-> "WAW"]}

\* sub["code"] of the airport subscriptions: subscription 1 (guild 1) is stored
\* under the ICAO code, 2 (guild 1) and 3 (guild 2) under the 3-letter code
CodeOf(x) == IF x = 1 THEN "EPWA" ELSE "WAW"

\* ReferenceDataService.get_airport_by_iata / get_airport: the matching rows
\* (none while the reference data is not loaded)
AirportsByCode(code, loaded) ==
    IF ~loaded THEN {}
    ELSE IF Len(code) = 3 THEN {r \in AirportRefs : r.iata = code}
    ELSE {r \in AirportRefs : r.icao = code}

\* the reference is looked up by the given code alone and no aliases are added
ResolveAirportCodesVerbatim(code, loaded) ==
    [request_code |-> code, display_code |-> code, match_codes |-> {code}]

\* poller._resolve_airport_codes for an alphabetic code of 3 or 4 letters
ResolveAirportCodes(code, loaded) ==
    LET found == AirportsByCode(code, loaded) IN
    IF found = {} THEN [request_code |-> code, display_code |-> code, match_codes |-> {code}]
    ELSE LET r == CHOOSE r \in found : TRUE
             preferred == IF r.iata # "" THEN r.iata ELSE r.icao
         IN [request_code |-> preferred, display_code |-> preferred,
             match_codes |-> {r.icao, r.iata} \ {""}]

\* poll_once: airport_targets after the subscriptions subs[i..] are added, as
\* the sequence of its items in insertion order
RECURSIVE AirportTargets(_, _, _, _)
AirportTargets(subs, i, loaded, targets) ==
    IF i > Len(subs) THEN targets
    ELSE LET resolved == ResolveAirportCodes(CodeOf(subs[i]), loaded)
             at == {t \in 1 .. Len(targets) : targets[t].request_code = resolved.request_code}
         IN AirportTargets(subs, i + 1, loaded,
                IF at = {}
                THEN Append(targets, [request_code |-> resolved.request_code,
                                      display_code |-> resolved.display_code,
                                      match_codes |-> resolved.match_codes,
                                      subs |-> {subs[i]}])
                ELSE [targets EXCEPT ![CHOOSE t \in at : TRUE] =
                         [@ EXCEPT !.match_codes = @ \cup resolved.match_codes,
                                   !.subs = @ \cup {subs[i]}]])

\* airport_targets[request_code]
TargetOf(targets, request_code) ==
    targets[CHOOSE t \in 1 .. Len(targets) : targets[t].request_code = request_code]

\* an event is filed under the request codes it names itself
MatchedByRequestCode(targets, batch, dest_codes) == Range(batch) \cap dest_codes

\* poll_once: the request codes of the batch an event of the response is
\* filed under (match_map and flights_by_code)
Matched(targets, batch, dest_codes) ==
    {c \in Range(batch) : TargetOf(targets, c).match_codes \cap dest_codes # {}}

\* poll_once: the request codes of the batch with matched flights, in the
\* order of flights_by_code
RECURSIVE MatchedInOrder(_, _, _, _)
MatchedInOrder(targets, batch, flights, i) ==
    IF i > Len(batch) THEN <<>>
    ELSE (IF \E n \in 1 .. Len(flights) : batch[i] \in Matched(targets, batch, flights[n].dest_codes)
          THEN <<batch[i]>> ELSE <<>>) \o MatchedInOrder(targets, batch, flights, i + 1)

\* poll_once: matched_flights of a request code
MatchedFlights(targets, batch, flights, code) ==
    SelectSeq(flights, LAMBDA fl : code \in Matched(targets, batch, fl.dest_codes))

\* the responses to an airport batch: no event, or one airborne event whose
\* destination is given by its ICAO code, its 3-letter code, both, or is
\* another airport
AirportEvent(dest_codes) == [dest_codes |-> dest_codes] @@ Event(FALSE, FALSE, "a", Airborne)
AirportResponses ==
    {<<>>, <<AirportEvent({"EPWA"})>>, <<AirportEvent({"WAW"})>>,
     <<AirportEvent({"EPWA", "WAW"})>>, <<AirportEvent({"EDDB"})>>}

ApIdle ==
    [pc |-> "idle", loaded |-> FALSE, targets |-> <<>>, batches |-> <<>>, bi |-> 0,
     channels |-> {}, flights |-> <<>>, pending |-> <<>>, requests |-> <<>>, runs |-> 0]

InitAirportVars == ap = ApIdle

\* poll_once: `for batch in batches:` from the bi-th batch, to the fetch call
\* or to the end of the stage
ApSeekBatch(a, bi) ==
    IF bi <= Len(a.batches)
    THEN [a EXCEPT !.pc = "fetch", !.bi = bi, !.requests = Append(a.requests, a.batches[bi])]
    ELSE [a EXCEPT !.pc = "done", !.bi = 0]

\* poll_once: the loop over flights_by_code goes to its next _process_flights
\* call, or the batch loop goes on
ApNextCall(a, p) ==
    IF a.pending = <<>> THEN [ap |-> ApSeekBatch(a, a.bi + 1), pf |-> p]
    ELSE LET code == Head(a.pending)
             target == TargetOf(a.targets, code)
             started == PfSeek([IdlePf EXCEPT !.sub_type = "airport",
                                   !.flights = MatchedFlights(a.targets, a.batches[a.bi], a.flights, code),
                                   !.subs = target.subs, !.channels = a.channels], 1, 1)
         IN [ap |-> [a EXCEPT !.pc = "dispatch", !.pending = Tail(a.pending)], pf |-> started]

\* poll_once with airport subscriptions only, up to its first fetch call:
\* grouping into targets and chunking
AirportCycle(loaded, channels) ==
    /\ ap.pc \in {"idle", "done"}
    /\ pf.pc = "idle"
    /\ ap.runs < MaxAirportCycles
    /\ LET targets == AirportTargets(SortedSeq(subscribed), 1, loaded, <<>>)
           batchable == [t \in 1 .. Len(targets) |-> targets[t].request_code]
       IN ap' = ApSeekBatch([ApIdle EXCEPT !.loaded = loaded, !.targets = targets,
                                            !.batches = Chunked(batchable, AirportBatchSize),
                                            !.channels = channels, !.runs = ap.runs + 1], 1)
    /\ UNCHANGED <<engineVars, selHist, loopVars, eligVars, textVars, cycleVars, notifyVars>>

\* fetch_by_airports_inbound returns flights: they are filed under the
\* request codes they match and the first _process_flights call begins
AirportReturn(flights) ==
    /\ ap.pc = "fetch"
    /\ LET next == ApNextCall([ap EXCEPT !.flights = flights,
                                   !.pending = MatchedInOrder(ap.targets, ap.batches[ap.bi], flights, 1)],
                              pf)
       IN /\ ap' = next.ap
          /\ pf' = next.pf
    /\ trail' = IF ap'.pc = "dispatch" THEN <<>> ELSE trail
    /\ UNCHANGED <<engineVars, selHist, loopVars, eligVars, textVars, cycleVars, ledger, subscribed, sends, logs,
                   cleanup_at, nCycles, nRestarts>>

\* a _process_flights call of the airport stage has returned
AirportNext ==
    /\ ap.pc = "dispatch"
    /\ pf.pc = "idle"
    /\ LET next == ApNextCall(ap, pf)
       IN /\ ap' = next.ap
          /\ pf' = next.pf
    /\ trail' = IF ap'.pc = "dispatch" THEN <<>> ELSE trail
    /\ UNCHANGED <<engineVars, selHist, loopVars, eligVars, textVars, cycleVars, ledger, subscribed, sends, logs,
                   cleanup_at, nCycles, nRestarts>>

\* ------------------------------------------------- the batches of a cycle
\* sub["type"] and sub["code"] of the subscriptions that can be stored
SubKinds ==
    {[type |-> "aircraft", code |-> c] : c \in {"B738", "A320", "A388"}}
        \cup {[type |-> "airport", code |-> c] : c \in {"EPWA", "WAW", "KJFK", "LHR", "PL", "DE"}}

\* poll_once: aircraft_groups.keys() after the subscriptions subs[i..] are
\* added, in insertion order
RECURSIVE AircraftGroupKeys(_, _, _)
AircraftGroupKeys(subs, i, keys) ==
    IF i > Len(subs) THEN keys
    ELSE AircraftGroupKeys(subs, i + 1,
             IF subs[i].type = "airport" \/ subs[i].code \in Range(keys) THEN keys
             ELSE Append(keys, subs[i].code))

\* poll_once: airport_targets.keys() after the subscriptions subs[i..] are
\* added, in insertion order
RECURSIVE AirportTargetKeys(_, _, _, _)
AirportTargetKeys(subs, i, loaded, keys) ==
    IF i > Len(subs) THEN keys
    ELSE LET request_code == ResolveAirportCodes(subs[i].code, loaded).request_code
         IN AirportTargetKeys(subs, i + 1, loaded,
                IF subs[i].type # "airport" \/ request_code \in Range(keys) THEN keys
                ELSE Append(keys, request_code))

\* `len(code) in (3, 4)`
IsBatchable(code) == Len(code) \in {3, 4}

\* `len(code) == 2`
IsCountry(code) == Len(code) = 2

NoBatches ==
    [subs |-> <<>>, built |-> FALSE, aircraft_batches |-> <<>>, batches |-> <<>>,
     country_codes |-> <<>>, requests |-> <<>>]

\* a /subscribe command stores a subscription
StoreSubscription(sub) ==
    /\ ~bt.built
    /\ Len(bt.subs) < MaxBatchSubs
    /\ bt' = [bt EXCEPT !.subs = Append(@, sub)]
    /\ UNCHANGED <<engineVars, selHist, notifyVars, cycleVars, loopVars, eligVars, airportVars, nc, fq, dx>>

\* poll_once: grouping, batchable_codes, country_codes, the two _chunked
\* calls, and the codes of the requests its three loops make
BuildBatches(loaded) ==
    /\ ~bt.built
    /\ bt.subs # <<>>
    /\ LET targets == AirportTargetKeys(bt.subs, 1, loaded, <<>>)
           aircraft_batches == Chunked(AircraftGroupKeys(bt.subs, 1, <<>>), AircraftBatchSize)
           batches == Chunked(SelectSeq(targets, IsBatchable), AirportBatchSize)
           country_codes == SelectSeq(targets, IsCountry)
       IN bt' = [bt EXCEPT !.built = TRUE,
                           !.aircraft_batches = aircraft_batches,
                           !.batches = batches,
                           !.country_codes = country_codes,
                           !.requests = aircraft_batches \o batches
                                           \o [i \in 1 .. Len(country_codes) |-> <<country_codes[i]>>]]
    /\ UNCHANGED <<engineVars, selHist, notifyVars, cycleVars, loopVars, eligVars, airportVars, nc, fq, dx>>

\* ------------------------------------- the events of a batched response
\* str.upper() on the type codes of the model
Upper(text) == CASE text = "b738" -> "B738" [] OTHER -> text

\* poller._extract_aircraft_code: "" stands for None
ExtractAircraftCode(event) ==
    IF event.type # "" THEN Upper(event.type)
    ELSE IF event.model # "" THEN Upper(event.model)
    ELSE ""

\* poll_once, aircraft stage: flights_by_code[code] after the loop over the flights
FlightsByCode(batch, flights, code) ==
    SelectSeq(flights, LAMBDA fl : ExtractAircraftCode(fl) # "" /\ ExtractAircraftCode(fl) = code
                                    /\ code \in Range(batch))

\* poll_once, aircraft stage: the _process_flights calls of a batch, in the
\* order of flights_by_code
RECURSIVE AircraftCalls(_, _, _)
AircraftCalls(batch, flights, i) ==
    IF i > Len(batch) THEN <<>>
    ELSE (IF FlightsByCode(batch, flights, batch[i]) = <<>> THEN <<>>
          ELSE <<[code |-> batch[i], flights |-> FlightsByCode(batch, flights, batch[i])]>>)
         \o AircraftCalls(batch, flights, i + 1)

\* poll_once, airport stage: the _process_flights calls of a batch
AirportCalls(targets, batch, flights) ==
    LET codes == MatchedInOrder(targets, batch, flights, 1)
    IN [i \in 1 .. Len(codes) |->
           [code |-> codes[i], flights |-> MatchedFlights(targets, batch, flights, codes[i])]]

\* the events of a response to an aircraft batch, by their type and model fields
TypedEvents == [type : {"", "B738", "b738", "A320", "C172"}, model : {"", "A388"}]

\* the events of a response to an airport batch, by their destination codes
DestinationEvents ==
    {AirportEvent(d) : d \in {{}, {"EPWA"}, {"WAW"}, {"EPWA", "WAW"}, {"EDDB"}}}

\* the sequences of at most MaxEvents events
EventLists(events) == UNION {[1 .. n -> events] : n \in 0 .. MaxEvents}

NoDemux == [kind |-> "none", targets |-> <<>>, batch |-> <<>>, flights |-> <<>>,
            done |-> FALSE, calls |-> <<>>]

\* a successful batched response is demultiplexed
Demultiplex ==
    /\ dx.kind # "none"
    /\ ~dx.done
    /\ dx' = [dx EXCEPT !.done = TRUE,
                        !.calls = IF dx.kind = "aircraft" THEN AircraftCalls(dx.batch, dx.flights, 1)
                                  ELSE AirportCalls(dx.targets, dx.batch, dx.flights)]
    /\ UNCHANGED <<engineVars, selHist, notifyVars, cycleVars, loopVars, eligVars, airportVars, nc, fq, bt>>

\* ------------------------------------------------ the text of a notification
\* the recipients a message is built for
Recipients == 1 .. MaxRecipients

\* len(user_id)
IdLen(u) == IF u <= 2 THEN 1 ELSE 2

\* the display codes of the targets
DisplayCodes == {"WAW", "EPWA"}

\* len(f"Flight update for {code}")
BaseLen(code) == 18 + Len(code)

\* len(f"<@{user_id}>")
MentionLen(u) == 3 + IdLen(u)

\* len(' '.join(mentions))
RECURSIVE JoinedLen(_)
JoinedLen(mentions) ==
    IF mentions = <<>> THEN 0
    ELSE MentionLen(Head(mentions)) + (IF Len(mentions) > 1 THEN 1 + JoinedLen(Tail(mentions)) ELSE 0)

\* len(str(remaining))
Digits(n) == IF n < 10 THEN 1 ELSE IF n < 100 THEN 2 ELSE 3

\* len(suffix): f" and {remaining} more - {base}" or f" - {base}"
SuffixLen(remaining, code) ==
    IF remaining > 0 THEN 5 + Digits(remaining) + 8 + BaseLen(code) ELSE 3 + BaseLen(code)

\* a message text: the mentions it begins with, the N of its "and N more"
\* (0 when it has none), the code of its base, its length and the number of
\* characters `content[:limit]` cut from it
Content(kept, more, code, len, cut) ==
    [kept |-> kept, more |-> more, code |-> code, len |-> len, cut |-> cut]

NoContent == Content(<<>>, 0, "", 0, 0)

\* the loop keeps a mention while the mentions alone fit
RECURSIVE KeepMentionsAlone(_, _, _, _, _)
KeepMentionsAlone(mentions, idx, kept, code, limit) ==
    IF idx > Len(mentions) THEN kept
    ELSE IF JoinedLen(Append(kept, mentions[idx])) > limit THEN kept
    ELSE KeepMentionsAlone(mentions, idx + 1, Append(kept, mentions[idx]), code, limit)

\* _build_notification_content: the loop over the mentions, which stops at
\* the first candidate longer than the limit
RECURSIVE KeepMentions(_, _, _, _, _)
KeepMentions(mentions, idx, kept, code, limit) ==
    IF idx > Len(mentions) THEN kept
    ELSE IF JoinedLen(Append(kept, mentions[idx])) + SuffixLen(Len(mentions) - idx, code) > limit THEN kept
    ELSE KeepMentions(mentions, idx + 1, Append(kept, mentions[idx]), code, limit)

\* _build_notification_content(user_ids, code, limit)
BuildNotificationContent(user_ids, code, limit) ==
    LET mentions == SortedSeq({user_ids[i] : i \in 1 .. Len(user_ids)})
        full == JoinedLen(mentions) + SuffixLen(0, code)
        kept == KeepMentions(mentions, 1, <<>>, code, limit)
        remaining == Len(mentions) - Len(kept)
        content == JoinedLen(kept) + SuffixLen(remaining, code)
    IN IF user_ids = <<>> THEN Content(<<>>, 0, code, BaseLen(code), 0)
       ELSE IF full <= limit THEN Content(mentions, 0, code, full, 0)
       ELSE IF kept = <<>> THEN Content(<<>>, 0, code, BaseLen(code), 0)
       ELSE IF content > limit THEN Content(kept, remaining, code, limit, content - limit)
       ELSE Content(kept, remaining, code, content, 0)

\* the text variables in the specifications that build no text
NoText == [user_ids |-> <<>>, code |-> "WAW", content |-> NoContent]

\* ------------------------------------------------- the identity of an event
\* a field value: None, a string or an integer, with the text str() gives for it
Val(t, text) == [t |-> t, text |-> text]

\* the mark of a key the record does not have
Absent == Val("absent", "")

\* the keys of the model's event records, in the order of sort_keys
SortedKeys == <<"alt", "callsign", "destination", "flight_id", "flight_number", "fr24_id",
                "id", "lat", "origin", "timestamp", "uuid">>

KeySet == {SortedKeys[i] : i \in 1 .. Len(SortedKeys)}

\* the event records of the provider, as the values of their keys
Records ==
    {[alt |-> alt, callsign |-> callsign, destination |-> Absent, flight_id |-> flight_id,
      flight_number |-> flight_number, fr24_id |-> fr24_id, id |-> id, lat |-> lat,
      origin |-> origin, timestamp |-> timestamp, uuid |-> Absent] :
        alt \in {Absent, Val("int", "0")},
        callsign \in {Absent, Val("none", "None"), Val("str", ""), Val("str", "LOT1")},
        flight_id \in {Absent, Val("str", ""), Val("str", "F1")},
        flight_number \in {Absent, Val("str", "LO1")},
        fr24_id \in {Absent, Val("str", "F2")},
        id \in {Absent, Val("int", "0"), Val("int", "7")},
        lat \in {Absent, Val("int", "7")},
        origin \in {Absent, Val("str", "WAW")},
        timestamp \in {Absent, Val("int", "0"), Val("int", "7")}}

NoRecord == [k \in KeySet |-> Absent]

\* the dict a fetch returns for a record: its items in the order of the
\* response, which is the sorted order or its reverse
RECURSIVE Items(_, _, _)
Items(r, i, reversed) ==
    IF i > Len(SortedKeys) THEN <<>>
    ELSE LET key == SortedKeys[i]
             item == IF r[key] = Absent THEN <<>> ELSE <<[key |-> key, value |-> r[key]]>>
         IN IF reversed THEN Items(r, i + 1, reversed) \o item ELSE item \o Items(r, i + 1, reversed)

\* flight.get(key)
Get(event, key) ==
    IF \E i \in 1 .. Len(event) : event[i].key = key
    THEN event[CHOOSE i \in 1 .. Len(event) : event[i].key = key].value
    ELSE Val("none", "None")

\* `if value`: None, '' and 0 are not
Nonempty(v) == CASE v.t = "str" -> v.text # "" [] v.t = "int" -> v.text # "0" [] OTHER -> FALSE

\* str(value)
Str(v) == v.text

\* an identity: the pieces of its text, between pipes, or the payload its
\* digest was taken of
Identity(pieces, digest) == [pieces |-> pieces, digest |-> digest]

\* the payload holds the items as the dict holds them
DumpsAsFetched(event) ==
    [i \in 1 .. Len(event) |-> [key |-> event[i].key, value |-> Str(event[i].value)]]

\* json.dumps(flight, sort_keys=True, default=str)
Dumps(event) ==
    LET has(i) == \E j \in 1 .. Len(event) : event[j].key = SortedKeys[i]
        RECURSIVE from(_)
        from(i) == IF i > Len(SortedKeys) THEN <<>>
                   ELSE IF has(i) THEN <<[key |-> SortedKeys[i], value |-> Str(Get(event, SortedKeys[i]))]>> \o from(i + 1)
                   ELSE from(i + 1)
    IN from(1)

\* _build_flight_id(flight)
BuildFlightId(event) ==
    LET id_keys == <<"flight_id", "id", "fr24_id", "uuid">>
        part_keys == <<"callsign", "flight_number", "origin", "destination", "timestamp">>
        ids == SelectSeq([i \in 1 .. Len(id_keys) |-> Get(event, id_keys[i])], Nonempty)
        parts == SelectSeq([i \in 1 .. Len(part_keys) |-> Get(event, part_keys[i])], Nonempty)
    IN IF ids # <<>> THEN Identity(<<Str(Head(ids))>>, <<>>)
       ELSE IF parts # <<>> THEN Identity([i \in 1 .. Len(parts) |-> Str(parts[i])], <<>>)
       ELSE Identity(<<>>, Dumps(event))

\* the text variables in the specifications that build no text
InitTextVars ==
    /\ nc = NoText
    /\ fq = [record |-> NoRecord, fetched |-> <<>>]
    /\ bt = NoBatches
    /\ dx = NoDemux

\* a fetch returns the record and _process_flights builds its identity
Fetch(reversed) ==
    /\ Len(fq.fetched) < MaxFetches
    /\ LET event == Items(fq.record, 1, reversed)
       IN fq' = [fq EXCEPT !.fetched = Append(@, [flight |-> event, identity |-> BuildFlightId(event)])]
    /\ UNCHANGED <<engineVars, selHist, notifyVars, cycleVars, loopVars, eligVars, airportVars, nc, bt, dx>>

\* _send_notification calls _build_notification_content(user_ids, display_code)
BuildContent ==
    /\ nc.content = NoContent
    /\ nc' = [nc EXCEPT !.content = BuildNotificationContent(nc.user_ids, nc.code, ContentLimit)]
    /\ UNCHANGED <<engineVars, selHist, notifyVars, cycleVars, loopVars, eligVars, airportVars, fq, bt, dx>>

NextContent == BuildContent

\* ------------------------------------------------------------ initial state
\* Fr24Client.__init__ and _RateLimiter.__init__
InitEngineWith(n) ==
    /\ now = 1
    /\ key_count = n
    /\ lim = [k \in Keys |-> NewRateLimiter]
    /\ limLock = [k \in Keys |-> 0]
    /\ cl = [c \in Clients |-> IdleClient]
    /\ snap = [key |-> None, next_in |-> 0, cooldown_in |-> 0, recent |-> 0]
    /\ prevPermit = [k \in Keys |-> None]
    /\ lastPermit = [k \in Keys |-> None]
    /\ parked_until = [k \in Keys |-> None]
    /\ parked_reason = [k \in Keys |-> NoReason]
    /\ pool_limiter = IF key_count > 1 THEN NewSpacingLimiter(MinInterval \div key_count)
                      ELSE NoPoolLimiter
    /\ pool_wait = "none"
    /\ rr_index = 0
    /\ reqs = <<>>
    /\ result = Response("none", None, None)
    /\ qres = NoQuery
    /\ nCalls = 0
    /\ nAdmin = 0

\* the eligibility variables in the specifications that do not run the heuristic
InitEligVars ==
    /\ flight = [same_codes |-> FALSE, same_ref |-> FALSE, altitude |-> None, speed |-> None,
                 vspeed |-> None, position |-> FALSE, dest_ref |-> FALSE, dest_coords |-> FALSE,
                 distance_m |-> DistanceLimitM, eta_in |-> None]
    /\ alert_eligible = "none"

\* poll_loop as a task that has not run yet; woken says that the future the
\* loop is suspended on has been resolved; duration, slept and called_at are
\* the delay of the current sleep, the time spent in it and the time spent in
\* it when set_enabled or set_interval was first called during it; raised is
\* what the last finished cycle raised from ("none", "cycle", "report")
LoopStart ==
    [pc |-> "start", woken |-> FALSE, elapsed |-> 0, left |-> 0,
     duration |-> 0, slept |-> 0, called_at |-> None, changed |-> FALSE, raised |-> "none"]

\* the loop variables in the specifications that do not run poll_loop
InitLoopVars ==
    /\ lp = LoopStart
    /\ enabled = TRUE
    /\ interval_seconds = 1
    /\ wake_event = FALSE

InitRest ==
    /\ selHist = <<>>
    /\ InitNotify
    /\ InitCycle
    /\ InitLoopVars
    /\ InitEligVars
    /\ InitAirportVars
    /\ InitTextVars

\* the variables no engine action writes
restVars == <<selHist, notifyVars, cycleVars, loopVars, eligVars, textVars, airportVars>>

vars == <<engineVars, restVars>>

\* ------------------------------------------------------------------ actions
\* the clock advances
Tick(horizon) ==
    /\ now < horizon
    /\ now' = now + 1
    /\ qres' = NoQuery
    /\ UNCHANGED <<restVars, key_count, limVars, cl, parked_until, parked_reason, pool_limiter,
                   pool_wait, rr_index, reqs, result, nCalls, nAdmin>>

\* the poll loop enters Fr24Client._call and runs to its first suspension
CallBeginUpTo(calls) ==
    /\ cl[Poller].pc = "idle"
    /\ nCalls < calls
    /\ nCalls' = nCalls + 1
    /\ SetCall(CallStart([CallState EXCEPT !.result = Response("none", None, None)], now))
    /\ qres' = NoQuery
    /\ UNCHANGED <<restVars, now, key_count, snap, nAdmin>>

CallBegin == CallBeginUpTo(MaxCalls)

\* an asyncio.sleep inside _call (pool limiter or key limiter) returns
CallWake ==
    /\ cl[Poller].pc \in SleepPcs \cup {"pool_sleep"}
    /\ now >= cl[Poller].wake
    /\ LET c == cl[Poller] IN
       IF c.pc = "pool_sleep"
       THEN SetCall(CallPoolResume(CallState, now))
       ELSE SetCall(CallKeyStep(CallState, now, c.key, WaitResume(c.pc, lim[c.key], now)))
    /\ qres' = NoQuery
    /\ UNCHANGED <<restVars, now, key_count, snap, nCalls, nAdmin>>

\* the provider request of _call finishes
CallReturn(outcome) ==
    /\ cl[Poller].pc = "request"
    /\ SetCall(CallOutcome(CallState, now, outcome))
    /\ qres' = NoQuery
    /\ UNCHANGED <<restVars, now, key_count, snap, nCalls, nAdmin>>

\* /park-key: Fr24Client.park_key_by_index
Park(index, until_epoch) ==
    /\ nAdmin < MaxAdmin
    /\ nAdmin' = nAdmin + 1
    /\ SetEng(ParkKeyByIndex(Eng, now, index, until_epoch, "manual"))
    /\ qres' = NoQuery
    /\ UNCHANGED <<restVars, now, key_count, limLock, cl, snap, prevPermit, lastPermit, reqs, result, nCalls>>

\* /unpark-key: Fr24Client.unpark_key_by_index
Unpark(index) ==
    /\ nAdmin < MaxAdmin
    /\ nAdmin' = nAdmin + 1
    /\ SetEng(UnparkKeyByIndex(Eng, now, index))
    /\ qres' = NoQuery
    /\ UNCHANGED <<restVars, now, key_count, limLock, cl, snap, prevPermit, lastPermit, reqs, result, nCalls>>

\* Fr24Client.active_key_count called on its own
QueryActiveKeyCount ==
    /\ LET a == ActiveKeyCount(Eng, now) IN
       /\ SetEng(a.e)
       /\ qres' = [op |-> "active_key_count", value |-> a.count,
                   cleared |-> {k \in Keys : IsExpired(Eng, k, now)}]
    /\ UNCHANGED <<restVars, now, key_count, limLock, cl, snap, prevPermit, lastPermit, reqs, result, nCalls, nAdmin>>

\* Fr24Client.next_unpark_in called on its own
QueryNextUnparkIn ==
    /\ LET n == NextUnparkIn(Eng, now) IN
       /\ SetEng(n.e)
       /\ qres' = [op |-> "next_unpark_in", value |-> n.value,
                   cleared |-> {k \in Keys : IsExpired(Eng, k, now)}]
    /\ UNCHANGED <<restVars, now, key_count, limLock, cl, snap, prevPermit, lastPermit, reqs, result, nCalls, nAdmin>>

\* _RateLimiter.snapshot of one key (Fr24Client.snapshot_keys visits each key)
RlSnapshot(k) ==
    /\ limLock[k] = 0
    /\ lim' = [lim EXCEPT ![k] = Prune(lim[k], now)]
    /\ snap' = [key |-> k,
                next_in |-> SnapshotOf(lim[k], now).next_in,
                cooldown_in |-> SnapshotOf(lim[k], now).cooldown_in,
                recent |-> SnapshotOf(lim[k], now).recent]
    /\ UNCHANGED <<restVars, now, key_count, limLock, cl, prevPermit, lastPermit,
                   parked_until, parked_reason, pool_limiter, pool_wait, rr_index,
                   reqs, result, qres, nCalls, nAdmin>>

NextPool ==
    \/ Tick(PoolMaxTime)
    \/ CallBegin
    \/ CallWake
    \/ \E outcome \in Outcomes : CallReturn(outcome)
    \/ \E k \in Keys : Park(k, now + ParkDuration)
    \/ \E k \in Keys : Unpark(k)
    \/ QueryActiveKeyCount
    \/ QueryNextUnparkIn

PoolKeys == 2

InitPool == InitEngineWith(PoolKeys) /\ InitRest

SpecPool == InitPool /\ [][NextPool]_vars

\* ------------------------------ a cycle of several requests and the commands
CoolMaxCalls == 3

NextCool ==
    \/ Tick(PoolMaxTime)
    \/ CallBeginUpTo(CoolMaxCalls)
    \/ CallWake
    \/ \E outcome \in Outcomes : CallReturn(outcome)
    \/ \E k \in Keys : Park(k, now + ParkDuration)
    \/ \E k \in Keys : Unpark(k)

InitCool == InitEngineWith(PoolKeys) /\ InitRest

SpecCool == InitCool /\ [][NextCool]_vars

\* ------------------------------------- a park during the wait for a key
\* _call, park and unpark as in the pool, over the time a key's limiter makes
\* a caller wait
NextRace ==
    \/ Tick(MaxTime)
    \/ CallBegin
    \/ CallWake
    \/ \E outcome \in Outcomes : CallReturn(outcome)
    \/ \E k \in Keys : Park(k, now + ParkDuration)
    \/ \E k \in Keys : Unpark(k)

InitRace == InitEngineWith(PoolKeys) /\ InitRest

SpecRace == InitRace /\ [][NextRace]_vars

\* ----------------------------------------------- one limiter, two callers
\* what a step w of _RateLimiter.wait leaves behind for caller c on key k
RlApply(c, k, w) ==
    /\ lim' = [lim EXCEPT ![k] = w.rec]
    /\ IF w.pc = "granted"
       THEN /\ cl' = [cl EXCEPT ![c] = IdleClient]
            /\ limLock' = [limLock EXCEPT ![k] = 0]
            /\ prevPermit' = [prevPermit EXCEPT ![k] = lastPermit[k]]
            /\ lastPermit' = [lastPermit EXCEPT ![k] = now]
       ELSE /\ cl' = [cl EXCEPT ![c] = [IdleClient EXCEPT !.pc = w.pc, !.key = k, !.wake = w.wake]]
            /\ limLock' = [limLock EXCEPT ![k] = c]
            /\ UNCHANGED <<prevPermit, lastPermit>>

\* a caller enters _RateLimiter.wait and takes the lock
RlWait(c, k) ==
    /\ cl[c].pc = "idle"
    /\ limLock[k] = 0
    /\ nCalls < MaxCalls
    /\ nCalls' = nCalls + 1
    /\ RlApply(c, k, WaitCooldown(lim[k], now))
    /\ UNCHANGED <<restVars, now, key_count, snap, parked_until, parked_reason, pool_limiter,
                   pool_wait, rr_index, reqs, result, qres, nAdmin>>

\* a sleep inside _RateLimiter.wait returns to the caller holding the lock
RlWake(c) ==
    /\ cl[c].pc \in SleepPcs
    /\ now >= cl[c].wake
    /\ RlApply(c, cl[c].key, WaitResume(cl[c].pc, lim[cl[c].key], now))
    /\ UNCHANGED <<restVars, now, key_count, snap, parked_until, parked_reason, pool_limiter,
                   pool_wait, rr_index, reqs, result, qres, nCalls, nAdmin>>

CooldownArgs == {0, 1, CooldownSeconds}

\* _RateLimiter.cooldown, which waits for the lock
RlCooldown(k, seconds) ==
    /\ limLock[k] = 0
    /\ nAdmin < MaxAdmin
    /\ nAdmin' = nAdmin + 1
    /\ lim' = [lim EXCEPT ![k] = CooldownRec(lim[k], now, seconds)]
    /\ UNCHANGED <<restVars, now, key_count, limLock, cl, snap, prevPermit, lastPermit,
                   parked_until, parked_reason, pool_limiter, pool_wait, rr_index,
                   reqs, result, qres, nCalls>>

NextLimiter ==
    \/ Tick(MaxTime)
    \/ \E c \in Clients : RlWait(c, 0)
    \/ \E c \in Clients : RlWake(c)
    \/ \E seconds \in CooldownArgs : RlCooldown(0, seconds)
    \/ RlSnapshot(0)

InitLimiter == InitEngineWith(1) /\ InitRest

SpecLimiter == InitLimiter /\ [][NextLimiter]_vars

\* ------------------------------------------- _select_key called in sequence
MaxSelects == 6
FairKeys == 3
FarFuture == 100

\* a pool of FairKeys keys, some parked far beyond the horizon, the others
\* with identical limiter state (all fresh, or all just used at time 1)
InitFair ==
    /\ InitRest
    /\ now = 1
    /\ key_count = FairKeys
    /\ \E used \in BOOLEAN :
         lim = [k \in Keys |-> IF used THEN WaitGrant(NewRateLimiter, 1).rec ELSE NewRateLimiter]
    /\ limLock = [k \in Keys |-> 0]
    /\ cl = [c \in Clients |-> IdleClient]
    /\ snap = [key |-> None, next_in |-> 0, cooldown_in |-> 0, recent |-> 0]
    /\ prevPermit = [k \in Keys |-> None]
    /\ lastPermit = [k \in Keys |-> None]
    /\ \E P \in SUBSET Keys :
         /\ parked_until = [k \in Keys |-> IF k \in P THEN FarFuture ELSE None]
         /\ parked_reason = [k \in Keys |-> IF k \in P THEN "manual" ELSE NoReason]
         /\ pool_limiter = IF key_count - Cardinality(P) > 1
                           THEN NewSpacingLimiter(MinInterval \div (key_count - Cardinality(P)))
                           ELSE NoPoolLimiter
    /\ pool_wait = "none"
    /\ rr_index \in Keys
    /\ reqs = <<>>
    /\ result = Response("none", None, None)
    /\ qres = NoQuery
    /\ nCalls = 0
    /\ nAdmin = 0

\* one call of Fr24Client._select_key, outside _call
SelectOnly ==
    /\ Len(selHist) < MaxSelects
    /\ LET s == SelectKey(Eng, now) IN
       /\ SetEng(s.e)
       /\ selHist' = Append(selHist, s.key)
    /\ UNCHANGED <<notifyVars, cycleVars, loopVars, eligVars, textVars, airportVars, now, key_count, limLock, cl, snap, prevPermit,
                   lastPermit, reqs, result, qres, nCalls, nAdmin>>

NextFair ==
    \/ Tick(MaxTime)
    \/ SelectOnly

SpecFair == InitFair /\ [][NextFair]_vars

\* ------------------------------------- _process_flights, cleanup and restart
\* a day passes between two poll cycles (the clock of this specification
\* counts days; one run of _process_flights takes seconds)
DayPasses ==
    /\ pf.pc = "idle"
    /\ now < MaxTime
    /\ now' = now + 1
    /\ UNCHANGED <<restVars, key_count, limVars, cl, parked_until, parked_reason, pool_limiter,
                   pool_wait, rr_index, reqs, result, qres, nCalls, nAdmin>>

NextNotify ==
    \/ DayPasses
    \/ \E flights \in Responses : \E channels \in {Guilds, {1}} : ProcessFlights("aircraft", flights, channels)
    \/ PfCheck
    \/ \E sent \in BOOLEAN : PfSend(sent)
    \/ PfLog
    \/ Cleanup
    \/ \E x \in Subs : Subscribe(x)
    \/ Restart

InitNotifyOnly == InitEngineWith(1) /\ InitRest

SpecNotify == InitNotifyOnly /\ [][NextNotify]_vars

\* ------------------------------------ _process_flights on the events it filters
\* the fields of an empty event
NoFields ==
    [same_codes |-> FALSE, same_ref |-> FALSE, altitude |-> None, speed |-> None, vspeed |-> None,
     position |-> FALSE, dest_ref |-> FALSE, dest_coords |-> FALSE,
     distance_m |-> DistanceLimitM, eta_in |-> None]

\* the responses considered: an airborne flight with a registration, one
\* without a registration before one with, a flight reporting altitude 0 and
\* speed 0 at its destination before an airborne one, and an empty event
\* before an airborne one
DispatchResponses ==
    {<<Event(FALSE, TRUE, "a", Airborne)>>,
     <<Event(FALSE, FALSE, "a", Airborne), Event(FALSE, TRUE, "b", Airborne)>>,
     <<Event(FALSE, TRUE, "a", Parked), Event(FALSE, TRUE, "b", Airborne)>>,
     <<Event(TRUE, FALSE, "a", NoFields), Event(FALSE, TRUE, "b", Airborne)>>}

SubTypes == {"aircraft", "airport"}

NextDispatch ==
    \/ \E sub_type \in SubTypes : \E flights \in DispatchResponses : \E channels \in {Guilds, {1}} :
          ProcessFlights(sub_type, flights, channels)
    \/ PfCheck
    \/ \E sent \in BOOLEAN : PfSend(sent)
    \/ PfLog
    \/ \E x \in Subs : Subscribe(x)

InitDispatch == InitEngineWith(1) /\ InitRest

SpecDispatch == InitDispatch /\ [][NextDispatch]_vars

\* --------------------------- airport subscriptions under two aliases
\* the airport stage with the reference data loaded or not, over the
\* subscriptions 1 (guild 1, ICAO code) and 3 (guild 2, 3-letter code)
NextAirport ==
    \/ \E loaded \in BOOLEAN : \E channels \in {Guilds, {1}} : AirportCycle(loaded, channels)
    \/ \E flights \in AirportResponses : AirportReturn(flights)
    \/ AirportNext
    \/ PfCheck
    \/ \E sent \in BOOLEAN : PfSend(sent)
    \/ PfLog

InitAirport == InitEngineWith(1) /\ InitRest

SpecAirport == InitAirport /\ [][NextAirport]_vars

\* ----------------------------------------------------- one poll_once cycle
AllResponses == ResponsesFor({"A1", "A2", "A3", "P1", "CC"})

NextCycle ==
    \/ \E subs \in SubscriptionSets : PollOnce(subs)
    \/ \E r \in AllResponses : FetchReturn(r)

InitCycleOnly == InitEngineWith(1) /\ InitRest

SpecCycle == InitCycleOnly /\ [][NextCycle]_vars

\* ------------------------------------------------ PollerState and poll_loop
\* the longest a cycle lasts, in ticks
MaxElapsed == 2
\* config.poll_jitter_seconds
PollJitter == 1
\* the intervals /set-polling-interval is given
IntervalChoices == {1, 2}

\* the state a step of poll_loop or a PollerState method reads and writes
Loop == [lp |-> lp, enabled |-> enabled, interval |-> interval_seconds, wake |-> wake_event]

\* asyncio.Event.set on _enabled_event: a waiter's future is resolved
EnabledEventSet(k) ==
    IF k.enabled THEN k
    ELSE [k EXCEPT !.enabled = TRUE,
                   !.lp.woken = IF k.lp.pc = "wait_enabled" THEN TRUE ELSE k.lp.woken]

\* asyncio.Event.set on _wake_event
WakeEventSet(k) ==
    IF k.wake THEN k
    ELSE [k EXCEPT !.wake = TRUE,
                   !.lp.woken = IF k.lp.pc = "sleep" THEN TRUE ELSE k.lp.woken]

\* PollerState.set_enabled
PollerSetEnabled(k, v) ==
    WakeEventSet(IF v THEN EnabledEventSet(k) ELSE [k EXCEPT !.enabled = FALSE])

\* the interval is stored and nobody is woken
PollerSetIntervalSilent(k, seconds) == [k EXCEPT !.interval = seconds]

\* PollerState.set_interval
PollerSetInterval(k, seconds) == WakeEventSet([k EXCEPT !.interval = seconds])

\* PollerState.sleep up to its suspension in asyncio.wait_for
PollerSleep(k, delay_seconds) ==
    [k EXCEPT !.wake = FALSE,
              !.lp = [pc |-> "sleep", woken |-> FALSE, elapsed |-> k.lp.elapsed,
                      left |-> delay_seconds, duration |-> delay_seconds,
                      slept |-> 0, called_at |-> None, changed |-> FALSE,
                      raised |-> k.lp.raised]]

\* poll_loop: `await poller_state.wait_until_enabled()` and, when the event is
\* set, the call of poll_once that follows without a suspension in between
LoopTop(k) ==
    IF k.enabled
    THEN [k EXCEPT !.lp.pc = "cycle", !.lp.woken = FALSE, !.lp.elapsed = 0]
    ELSE [k EXCEPT !.lp.pc = "wait_enabled", !.lp.woken = FALSE]

\* poll_loop from the end of the cycle to poller_state.sleep(sleep_for)
LoopSleep(k, jitter) ==
    PollerSleep(k, Max2(0, k.interval - k.lp.elapsed) + jitter)

\* an exception of the error report leaves poll_loop
ReportEndUncaught(k, raised, jitter) ==
    IF raised THEN [k EXCEPT !.lp.pc = "dead", !.lp.raised = "report"]
    ELSE LoopSleep([k EXCEPT !.lp.raised = "cycle"], jitter)

\* poll_loop: the error report returns or raises (`except Exception`)
ReportEnd(k, raised, jitter) ==
    LoopSleep([k EXCEPT !.lp.raised = IF raised THEN "report" ELSE "cycle"], jitter)

SetLoop(k) ==
    /\ lp' = k.lp
    /\ enabled' = k.enabled
    /\ interval_seconds' = k.interval
    /\ wake_event' = k.wake

loopRest == <<engineVars, selHist, notifyVars, cycleVars, eligVars, textVars, airportVars>>

\* the poll_loop task is ready to run: the event loop runs it before the
\* clock moves on
Runnable ==
    \/ lp.pc = "start"
    \/ lp.pc = "wait_enabled" /\ lp.woken
    \/ lp.pc = "sleep" /\ (lp.woken \/ lp.left = 0)

\* the first step of the poll_loop task
LoopBegin ==
    /\ lp.pc = "start"
    /\ SetLoop(LoopTop(Loop))
    /\ UNCHANGED loopRest

\* asyncio.Event.wait returns in wait_until_enabled: its future was resolved
LoopEnabledWake ==
    /\ lp.pc = "wait_enabled"
    /\ lp.woken
    /\ SetLoop([Loop EXCEPT !.lp.pc = "cycle", !.lp.woken = FALSE, !.lp.elapsed = 0])
    /\ UNCHANGED loopRest

\* poll_once returns its metrics
PollReturn(jitter) ==
    /\ lp.pc = "cycle"
    /\ SetLoop(LoopSleep([Loop EXCEPT !.lp.raised = "none"], jitter))
    /\ UNCHANGED loopRest

\* poll_once raises: poll_loop starts the error report
PollRaise ==
    /\ lp.pc = "cycle"
    /\ SetLoop([Loop EXCEPT !.lp.pc = "report"])
    /\ UNCHANGED loopRest

\* db.fetch_guild_channels / _notify_poll_error of the error report finish
ReportReturn(raised, jitter) ==
    /\ lp.pc = "report"
    /\ SetLoop(ReportEnd(Loop, raised, jitter))
    /\ UNCHANGED loopRest

\* asyncio.wait_for returns in PollerState.sleep (event set or timeout)
SleepReturn ==
    /\ lp.pc = "sleep"
    /\ lp.woken \/ lp.left = 0
    /\ SetLoop(LoopTop(Loop))
    /\ UNCHANGED loopRest

\* the history of the current sleep after a set_enabled / set_interval call:
\* when the first call was made, and whether a call changed the enabled flag
\* or the interval
Called(k) ==
    IF lp.pc = "sleep"
    THEN [k EXCEPT !.lp.called_at = IF lp.called_at = None THEN lp.slept ELSE lp.called_at,
                   !.lp.changed = lp.changed \/ k.enabled # enabled
                                             \/ k.interval # interval_seconds]
    ELSE k

\* /start and /stop
SetEnabled(v) ==
    /\ SetLoop(Called(PollerSetEnabled(Loop, v)))
    /\ UNCHANGED loopRest

\* /set-polling-interval
SetInterval(seconds) ==
    /\ SetLoop(Called(PollerSetInterval(Loop, seconds)))
    /\ UNCHANGED loopRest

\* a tick passes while the cycle runs or the loop sleeps
LoopTick ==
    /\ ~Runnable
    /\ \/ /\ lp.pc \in {"cycle", "report"}
          /\ lp.elapsed < MaxElapsed
          /\ lp' = [lp EXCEPT !.elapsed = lp.elapsed + 1]
       \/ /\ lp.pc = "sleep"
          /\ lp.left > 0
          /\ lp' = [lp EXCEPT !.left = lp.left - 1, !.slept = lp.slept + 1]
    /\ UNCHANGED <<loopRest, enabled, interval_seconds, wake_event>>

LoopSteps ==
    \/ LoopBegin
    \/ LoopEnabledWake
    \/ \E jitter \in 0 .. PollJitter : PollReturn(jitter)
    \/ PollRaise
    \/ \E raised \in BOOLEAN, jitter \in 0 .. PollJitter : ReportReturn(raised, jitter)
    \/ SleepReturn

NextLoop ==
    \/ LoopSteps
    \/ LoopTick
    \/ \E v \in BOOLEAN : SetEnabled(v)
    \/ \E seconds \in IntervalChoices : SetInterval(seconds)

InitLoop ==
    /\ InitEngineWith(1)
    /\ selHist = <<>>
    /\ InitNotify
    /\ InitCycle
    /\ InitEligVars
    /\ InitAirportVars
    /\ InitTextVars
    /\ lp = LoopStart
    /\ enabled \in BOOLEAN
    /\ interval_seconds \in IntervalChoices
    /\ wake_event = FALSE

SpecLoop == InitLoop /\ [][NextLoop]_vars

\* the event loop runs a ready poll_loop step, the awaited calls of a cycle
\* finish, and time passes
SpecLoopFair == SpecLoop /\ WF_vars(LoopSteps) /\ WF_vars(LoopTick)

\* --------------------------------------- the arrival-eligibility heuristic
\* _process_flights calls _is_airport_alert_eligible for the flight
CheckEligible ==
    /\ alert_eligible = "none"
    /\ alert_eligible' = IF IsAirportAlertEligible(flight) THEN "yes" ELSE "no"
    /\ UNCHANGED <<engineVars, selHist, notifyVars, cycleVars, loopVars, airportVars, textVars, flight>>

NextEligible == CheckEligible

InitEligible ==
    /\ InitEngineWith(1)
    /\ selHist = <<>>
    /\ InitNotify
    /\ InitCycle
    /\ InitLoopVars
    /\ InitAirportVars
    /\ InitTextVars
    /\ flight \in Flights
    /\ alert_eligible = "none"

SpecEligible == InitEligible /\ [][NextEligible]_vars

\* ------------------------------------------- building a notification text
\* _process_flights passes `sorted({sub["user_id"] for sub in to_notify})`
InitContent ==
    /\ InitEngineWith(1)
    /\ selHist = <<>>
    /\ InitNotify
    /\ InitCycle
    /\ InitLoopVars
    /\ InitEligVars
    /\ InitAirportVars
    /\ \E users \in SUBSET Recipients, code \in DisplayCodes :
           nc = [user_ids |-> SortedSeq(users), code |-> code, content |-> NoContent]
    /\ fq = [record |-> NoRecord, fetched |-> <<>>]
    /\ bt = NoBatches
    /\ dx = NoDemux

SpecContent == InitContent /\ [][NextContent]_vars

\* ------------------------------------------------ duplicate fetches of an event
NextIdentity == \E reversed \in BOOLEAN : Fetch(reversed)

InitIdentity ==
    /\ InitEngineWith(1)
    /\ selHist = <<>>
    /\ InitNotify
    /\ InitCycle
    /\ InitLoopVars
    /\ InitEligVars
    /\ InitAirportVars
    /\ nc = NoText
    /\ \E r \in Records : fq = [record |-> r, fetched |-> <<>>]
    /\ bt = NoBatches
    /\ dx = NoDemux

SpecIdentity == InitIdentity /\ [][NextIdentity]_vars

\* ------------------------------------------------ building the batches
NextBatches ==
    \/ \E sub \in SubKinds : StoreSubscription(sub)
    \/ \E loaded \in BOOLEAN : BuildBatches(loaded)

InitBatches ==
    /\ InitEngineWith(1)
    /\ selHist = <<>>
    /\ InitNotify
    /\ InitCycle
    /\ InitLoopVars
    /\ InitEligVars
    /\ InitAirportVars
    /\ nc = NoText
    /\ fq = [record |-> NoRecord, fetched |-> <<>>]
    /\ bt = NoBatches
    /\ dx = NoDemux

SpecBatches == InitBatches /\ [][NextBatches]_vars

\* --------------------------------------------- demultiplexing a response
NextDemux == Demultiplex

\* the batches of the aircraft codes B738, A320, A388, and the batches of the
\* airport targets of subscriptions 1..3 for a batch size of 1 or of
\* AirportBatchSize, each with a response
InitDemux ==
    /\ InitEngineWith(1)
    /\ selHist = <<>>
    /\ InitNotify
    /\ InitCycle
    /\ InitLoopVars
    /\ InitEligVars
    /\ InitAirportVars
    /\ nc = NoText
    /\ fq = [record |-> NoRecord, fetched |-> <<>>]
    /\ bt = NoBatches
    /\ \/ \E batch \in Range(Chunked(<<"B738", "A320", "A388">>, AircraftBatchSize)) :
           \E flights \in EventLists(TypedEvents) :
               dx = [NoDemux EXCEPT !.kind = "aircraft", !.batch = batch, !.flights = flights]
       \/ \E loaded \in BOOLEAN : \E size \in {1, AirportBatchSize} :
           LET targets == AirportTargets(<<1, 2, 3>>, 1, loaded, <<>>)
               keys == [t \in 1 .. Len(targets) |-> targets[t].request_code]
           IN \E batch \in Range(Chunked(keys, size)) :
              \E flights \in EventLists(DestinationEvents) :
                  dx = [NoDemux EXCEPT !.kind = "airport", !.targets = targets,
                                       !.batch = batch, !.flights = flights]

SpecDemux == InitDemux /\ [][NextDemux]_vars

\* --------------------------------------------------------------- properties
\* C1: no (subscription, flight identity) pair sees more than one successful
\* send, over repeated fetches, duplicates in a response, and restarts.
AtMostOneSend ==
    \A x \in Subs : \A f \in FlightIds : sends[x][f] <= 1

\* C2: log_notifications is called at most once for a (subscription,
\* flight identity) pair, over any number of cycles and restarts.
LoggedAtMostOnce ==
    \A x \in Subs : \A f \in FlightIds : logs[x][f] <= 1

\* C3: whenever _select_key returns a key, the parked_until that key had
\* when the selection lock was taken is unset or not in the future.
SelectNeverParked ==
    LET sel == cl[Poller].sel IN
    sel.t # None => ~(Truthy(sel.parked_until) /\ sel.parked_until > sel.t)

\* a key is returned while the other key is parked
SelectNeverParkedWitness ==
    /\ cl[Poller].sel.t = now
    /\ \E k \in Keys : Truthy(parked_until[k]) /\ parked_until[k] > now

\* C4: the first pool query made at or after the deadline of a park clears
\* parked_until and parked_reason of that key without an unpark, and
\* active_key_count counts the key as active.
ExpiredParkCleared ==
    /\ qres.op # "none" =>
         /\ \A k \in Keys : ~(Truthy(parked_until[k]) /\ parked_until[k] <= now)
         /\ \A k \in qres.cleared : parked_until[k] = None /\ parked_reason[k] = NoReason
    /\ qres.op = "active_key_count" =>
         qres.value = Cardinality({k \in Keys : ~(Truthy(parked_until[k]) /\ parked_until[k] > now)})
    /\ cl[Poller].sel.t = now =>
         \A k \in Keys : ~(Truthy(parked_until[k]) /\ parked_until[k] <= now)

\* active_key_count found an expired park, cleared it and counts every key
ExpiredParkClearedWitness ==
    /\ qres.op = "active_key_count"
    /\ qres.cleared # {}
    /\ qres.value = key_count

\* C5: whenever no expired park is waiting to be cleared, the pool limiter
\* is paced at per-key interval / active count (and is absent when at most
\* one key is active).
PoolIntervalMatches ==
    (\A k \in Keys : ~(Truthy(parked_until[k]) /\ parked_until[k] <= now)) =>
        LET active == Cardinality({k \in Keys : ~Truthy(parked_until[k])}) IN
        IF active <= 1
        THEN ~pool_limiter.on
        ELSE pool_limiter.on /\ pool_limiter.min_interval = MinInterval \div active

\* C6: two consecutive permits of one _RateLimiter are at least
\* min_interval apart, whatever cooldown and snapshot calls came between.
PermitsSpaced ==
    \A k \in Keys : prevPermit[k] # None => lastPermit[k] - prevPermit[k] >= MinInterval

\* two permits of the limiter with a cooldown call on the way
PermitsSpacedWitness ==
    /\ prevPermit[0] # None
    /\ nAdmin > 0

\* C7: two consecutive provider requests, both issued while more than one
\* key is active, are at least per-key interval / active count apart,
\* whatever park, unpark or expiry happened between them.
PoolPacing ==
    \A i \in 1 .. (Len(reqs) - 1) :
        (reqs[i].active > 1 /\ reqs[i + 1].active > 1) =>
            (reqs[i + 1].t - reqs[i].t) * reqs[i + 1].active >= MinInterval

\* C8: with K keys not parked and identical limiter waits, N calls of
\* _select_key return each of them floor(N/K) or ceil(N/K) times, in
\* rotating order, and never a parked key.
Times(k) == Cardinality({i \in 1 .. Len(selHist) : selHist[i] = k})

NotParkedKeys == {k \in Keys : ~Truthy(parked_until[k])}

\* the next key that is not parked, scanning upward from k + 1 with wrap
NextNotParked(k) ==
    LET offs == {o \in 1 .. key_count : ((k + o) % key_count) \in NotParkedKeys} IN
    (k + SetMin(offs)) % key_count

RoundRobinFair ==
    NotParkedKeys # {} =>
        LET K == Cardinality(NotParkedKeys)
            N == Len(selHist)
        IN /\ \A k \in NotParkedKeys : Times(k) \in {N \div K, (N + K - 1) \div K}
           /\ \A k \in Keys \ NotParkedKeys : Times(k) = 0
           /\ \A i \in 1 .. (N - 1) : selHist[i + 1] = NextNotParked(selHist[i])

\* two keys of three share five selections, the parked one lying between them
RoundRobinFairWitness ==
    /\ Len(selHist) = 5
    /\ NotParkedKeys = {0, 2}
    /\ Times(0) + Times(2) = 5

\* C9: a batched request answered with a parameter-shaped, not rate-limited
\* error is followed by one per-code request for each code of the batch, in
\* batch order and nothing in between, each issued as soon as the one before
\* returned, and every per-code response without error reaches _process_flights.
ParamShaped(e) == e.done /\ ~e.res.raised /\ ~e.res.rate_limited /\ (e.res.error \cap ParamTokens) # {}

CodeRequestsOf(i) ==
    {j \in 1 .. Len(creq) : creq[j].kind = "code" /\ creq[j].stage = creq[i].stage
                            /\ creq[j].bi = creq[i].bi}

FallbackPerCode ==
    \A i \in 1 .. Len(creq) :
        (creq[i].kind = "batch" /\ ParamShaped(creq[i])) =>
            LET n == Len(creq[i].codes) IN
            /\ CodeRequestsOf(i) \subseteq (i + 1) .. (i + n)
            /\ \A j \in 1 .. n :
                 /\ (j = 1 \/ (i + j - 1 <= Len(creq) /\ creq[i + j - 1].done
                                /\ ~creq[i + j - 1].res.raised))
                        => i + j \in CodeRequestsOf(i)
                 /\ i + j \in CodeRequestsOf(i) =>
                        /\ creq[i + j].codes = <<creq[i].codes[j]>>
                        /\ (creq[i + j].done /\ ~creq[i + j].res.raised /\ creq[i + j].res.error = NoError)
                               => \E q \in 1 .. Len(processed) :
                                     /\ processed[q].req = i + j
                                     /\ processed[q].stage = creq[i].stage
                                     /\ processed[q].code = creq[i].codes[j]

\* a finished cycle in which a two-code batch fell back to its two codes, the
\* first per-code request failing and the second being processed
FallbackPerCodeWitness ==
    /\ cy.pc = "done"
    /\ \E i \in 1 .. Len(creq) :
         /\ creq[i].kind = "batch" /\ ParamShaped(creq[i]) /\ Len(creq[i].codes) = 2
         /\ i + 2 <= Len(creq)
         /\ creq[i + 1].res.error # NoError
         /\ creq[i + 2].res.error = NoError
         /\ \E q \in 1 .. Len(processed) : processed[q].req = i + 2

\* C10: a batched request answered rate-limited has no per-code request, and
\* none of its groups is handed to _process_flights in the cycle.
RateLimitedBatchSkipped ==
    \A i \in 1 .. Len(creq) :
        (creq[i].kind = "batch" /\ creq[i].done /\ creq[i].res.rate_limited) =>
            /\ CodeRequestsOf(i) = {}
            /\ \A q \in 1 .. Len(processed) :
                 ~(processed[q].stage = creq[i].stage /\ processed[q].code \in Range(creq[i].codes))

\* a finished cycle with a rate-limited batch and a processed group elsewhere
RateLimitedBatchSkippedWitness ==
    /\ cy.pc = "done"
    /\ processed # <<>>
    /\ \E i \in 1 .. Len(creq) : creq[i].kind = "batch" /\ creq[i].res.rate_limited

\* C11: every poll cycle, whatever number of its batched, per-code and country
\* requests came back rate-limited, has at most one rate-limit notice, and a
\* cycle in which a request came back rate-limited has its own notice whether
\* or not an earlier cycle had one
RateLimitedRequests == {i \in 1 .. Len(creq) : creq[i].done /\ creq[i].res.rate_limited}

OneRateLimitNoticePerCycle ==
    /\ \A i \in 1 .. Len(rlNotices) : rlNotices[i] <= 1
    /\ cy.pc # "idle" /\ RateLimitedRequests # {} => rlNotices[Len(rlNotices)] = 1

OneRateLimitNoticePerCycleWitness ==
    /\ Len(rlNotices) = 2
    /\ rlNotices[1] = 1
    /\ rlNotices[2] = 1
    /\ \E i, j, l \in RateLimitedRequests :
            /\ creq[i].kind = "batch"
            /\ creq[j].kind = "code"
            /\ creq[l].kind = "country"

\* C12: the step in which a request comes back rate-limited puts the limiter of
\* the key that made the request into a cooldown ending CooldownSeconds from
\* now and changes no parked_until, no parked_reason, not the number of active
\* keys, no other key's limiter, and neither the pool limiter nor the cursor
RateLimitedReturn ==
    /\ cl[Poller].pc = "request"
    /\ cl'[Poller].pc = "idle"
    /\ result'.kind = "rate_limited"

RateLimitedFrame ==
    [][RateLimitedReturn =>
        LET k == cl[Poller].key IN
        /\ result'.key = k
        /\ lim'[k].cooldown_until = now + CooldownSeconds
        /\ lim'[k].next_at >= now + CooldownSeconds
        /\ lim'[k].recent = lim[k].recent
        /\ \A j \in Keys \ {k} : lim'[j] = lim[j]
        /\ parked_until' = parked_until
        /\ parked_reason' = parked_reason
        /\ ActiveKeyCountLocked(Eng, now)' = ActiveKeyCountLocked(Eng, now)
        /\ pool_limiter' = pool_limiter
        /\ rr_index' = rr_index]_vars

RateLimitedFrameWitness ==
    /\ cl[Poller].pc = "idle"
    /\ result.kind = "rate_limited"
    /\ lim[result.key].cooldown_until = now + CooldownSeconds
    /\ \E j \in Keys \ {result.key} : IsParked(Eng, j, now)

\* C13: a key that is in the cooldown of a rate-limited response is not
\* returned by _select_key while another key is neither parked nor cooling
SelectStep ==
    /\ cl[Poller].pc \in {"idle", "pool_sleep"}
    /\ cl'[Poller].pc \in SleepPcs \cup {"request"}

Cooling(k) == lim[k].cooldown_until > now

CoolingKeySkipped ==
    [][SelectStep /\ Cooling(cl'[Poller].key) =>
        ~\E j \in Keys \ {cl'[Poller].key} : ~IsParked(Eng, j, now) /\ ~Cooling(j)]_vars

\* C14: a _call that starts while every key is parked returns at once a result
\* of kind no_active_keys whose retry_after is the time until the soonest park
\* expiry, issues no request and leaves every key limiter, every permit and
\* the pool limiter as they were; _select_key in such a state fails with that
\* same time
AllParked == \A k \in Keys : IsParked(Eng, k, now)

SoonestExpiry == SetMin({parked_until[k] - now : k \in Keys})

CallStartStep == cl[Poller].pc = "idle" /\ nCalls' = nCalls + 1

NoActiveKeysResult ==
    /\ [][CallStartStep /\ AllParked =>
            /\ cl'[Poller].pc = "idle"
            /\ result' = Response("no_active_keys", None, SoonestExpiry)
            /\ reqs' = reqs
            /\ lim' = lim
            /\ lastPermit' = lastPermit
            /\ pool_limiter' = pool_limiter]_vars
    /\ [](AllParked =>
            /\ ~SelectKey(Eng, now).ok
            /\ SelectKey(Eng, now).retry_after = SoonestExpiry
            /\ SelectKey(Eng, now).e.lim = lim)

NoActiveKeysResultWitness ==
    /\ AllParked
    /\ \E j, k \in Keys : parked_until[j] < parked_until[k]
    /\ cl[Poller].pc = "idle"
    /\ result = Response("no_active_keys", None, SoonestExpiry)
    /\ Len(reqs) = 1
    /\ nCalls = 2

\* C15: once a request of a cycle has returned the no-active-keys result, the
\* cycle makes no further request: that request is the last one of the cycle
NoActiveKeysEndsCycle ==
    \A i \in 1 .. Len(creq) :
        creq[i].done /\ creq[i].res.no_active_keys => i = Len(creq)

\* C16: a PollerState.sleep during which set_enabled or set_interval was
\* called returns with no more time spent than at the first such call, and a
\* sleep during which neither was called returns when its duration has passed
SleepReturnStep == lp.pc = "sleep" /\ lp'.pc # "sleep"

CycleEntry == lp.pc # "cycle" /\ lp'.pc = "cycle"

CycleOnlyWhenEnabled == [][CycleEntry => enabled]_vars

\* C18: poll_loop never ends; when poll_once has raised, the loop goes from the
\* error report, whether the report itself raises or not, to its sleep, and
\* from there another cycle starts unless polling gets disabled
LoopSurvives ==
    /\ [](lp.pc # "dead")
    /\ [][lp.pc = "report" /\ lp'.pc # "report" => lp'.pc = "sleep"]_vars
    /\ [](lp.pc = "report" => <>(lp.pc = "cycle" \/ ~enabled))

LoopSurvivesWitness ==
    /\ lp.pc = "cycle"
    /\ lp.raised = "report"
    /\ lp.slept = lp.duration
    /\ lp.duration > 0
    /\ enabled

\* the flights of C19 and C20: on-ground-like, destination and origin being
\* different airports, with a position and a destination reference that has
\* coordinates
GroundedArrival(f) ==
    /\ ~f.same_codes
    /\ ~f.same_ref
    /\ IsOnGroundLike(f)
    /\ f.position
    /\ HasCoordinates(f)

\* C19 as stated: with no ETA of 30 minutes or more, such a flight is alert_eligible
\* at exactly 10.0 km from the destination and not eligible at 9.999 km
EligibleAtLimit ==
    alert_eligible # "none" /\ GroundedArrival(flight) /\ flight.eta_in \in {None, EtaLimitSeconds - 1} =>
        /\ flight.distance_m = DistanceLimitM => alert_eligible = "yes"
        /\ flight.distance_m = DistanceLimitM - 1 => alert_eligible = "no"

\* C19 amended: with no ETA of 30 minutes or more, such a flight is not
\* eligible at exactly 10.0 km nor at 9.999 km, and is eligible at 10.001 km
EligibleBeyondLimit ==
    alert_eligible # "none" /\ GroundedArrival(flight) /\ flight.eta_in \in {None, EtaLimitSeconds - 1} =>
        /\ flight.distance_m = DistanceLimitM => alert_eligible = "no"
        /\ flight.distance_m = DistanceLimitM - 1 => alert_eligible = "no"
        /\ flight.distance_m = DistanceLimitM + 1 => alert_eligible = "yes"

EligibleBeyondLimitWitness ==
    /\ alert_eligible = "no"
    /\ GroundedArrival(flight)
    /\ flight.eta_in = None
    /\ flight.distance_m = DistanceLimitM

\* C20: within 10 km of the destination, such a flight is eligible when its
\* ETA is exactly 30 minutes ahead and not eligible at 29 minutes 59 seconds
EligibleAtEtaLimit ==
    alert_eligible # "none" /\ GroundedArrival(flight) /\ flight.distance_m <= DistanceLimitM =>
        /\ flight.eta_in = EtaLimitSeconds => alert_eligible = "yes"
        /\ flight.eta_in = EtaLimitSeconds - 1 => alert_eligible = "no"

EligibleAtEtaLimitWitness ==
    /\ alert_eligible = "yes"
    /\ GroundedArrival(flight)
    /\ flight.distance_m = DistanceLimitM
    /\ flight.eta_in = EtaLimitSeconds

\* the five predicates of the rule list, read off the flight: the distance is
\* over 10 km only when there is a distance, that is when the event has a
\* position and the destination reference has coordinates
AliasSetsIntersect(f) == f.same_codes
DistanceOverLimit(f) == f.position /\ HasCoordinates(f) /\ FarFromDestination(f.distance_m)

\* the ordered rule list over the five predicates
OrderedRules(f) ==
    IF AliasSetsIntersect(f) THEN ~IsStationaryZero(f)
    ELSE IF ~IsOnGroundLike(f) THEN TRUE
    ELSE IF DistanceOverLimit(f) THEN TRUE
    ELSE IF EtaQualifies(f.eta_in) THEN TRUE
    ELSE FALSE

\* C21: for every flight, _is_airport_alert_eligible returns what the ordered
\* rule list gives for the flight's five predicates (turnaround -> eligible iff
\* not stationary-zero; else not on-ground-like -> eligible; else distance over
\* 10 km -> eligible; else ETA >= 30 min -> eligible; otherwise not eligible)
EligibleByOrderedRules ==
    alert_eligible # "none" => (alert_eligible = "yes" <=> OrderedRules(flight))

\* a step of _process_flights that reads the ledger, sends or writes the ledger
DispatchStep ==
    \/ Len(trail') > Len(trail)
    \/ ledger' # ledger
    \/ sends' # sends
    \/ logs' # logs

\* C22: in a call for an aircraft subscription group, every ledger read, send
\* and ledger write is for an event that carries a registration and is not
\* stationary-zero
AircraftEventFiltered ==
    [][pf.sub_type = "aircraft" /\ DispatchStep =>
          /\ pf.pc # "idle"
          /\ HasRegistration(pf.flights[pf.fi])
          /\ ~IsStationaryZero(pf.flights[pf.fi].f)]_vars

\* a call for an aircraft group skipped a stationary-zero event that has a
\* registration and sent the next event
AircraftEventFilteredWitness ==
    /\ pf.sub_type = "aircraft"
    /\ pf.pc # "idle"
    /\ Len(pf.flights) = 2
    /\ HasRegistration(pf.flights[1])
    /\ IsStationaryZero(pf.flights[1].f)
    /\ \E i \in 1..Len(trail) : trail[i].op = "send" /\ trail[i].fi = 2
    /\ \A i \in 1..Len(trail) : trail[i].fi = 2

\* the place of a request's kind in the build order
StageRank(stage) == CASE stage = "aircraft" -> 1 [] stage = "airport" -> 2 [] OTHER -> 3

\* C23: the requests of a cycle are issued in build order: aircraft requests
\* before airport requests (and those before country requests), the batch
\* requests of a kind carrying the chunks in the order they were chunked, and
\* the per-code requests of a batch between that batch's request and the next
RequestsInBuildOrder ==
    /\ \A i, j \in 1 .. Len(creq) : i < j =>
          /\ StageRank(creq[i].stage) <= StageRank(creq[j].stage)
          /\ creq[i].stage = creq[j].stage =>
                /\ creq[i].bi <= creq[j].bi
                /\ creq[i].bi = creq[j].bi => creq[j].kind = "code"
    /\ \A i \in 1 .. Len(creq) :
          /\ creq[i].kind = "batch" =>
                /\ creq[i].codes =
                      (IF creq[i].stage = "aircraft" THEN cy.aircraft_batches ELSE cy.batches)[creq[i].bi]
                /\ creq[i].bi > 1 =>
                      \E h \in 1 .. i - 1 : /\ creq[h].kind = "batch"
                                             /\ creq[h].stage = creq[i].stage
                                             /\ creq[h].bi = creq[i].bi - 1
          /\ creq[i].kind = "code" =>
                \E h \in 1 .. i - 1 : /\ creq[h].kind = "batch"
                                       /\ creq[h].stage = creq[i].stage
                                       /\ creq[h].bi = creq[i].bi

\* a finished cycle whose first aircraft batch fell back to per-code requests
\* before the second aircraft batch and the airport batch were requested
RequestsInBuildOrderWitness ==
    /\ cy.pc = "done"
    /\ Len(creq) >= 5
    /\ creq[1].kind = "batch" /\ creq[1].stage = "aircraft" /\ creq[1].codes = <<"A1", "A2">>
    /\ creq[2].kind = "code" /\ creq[3].kind = "code"
    /\ creq[4].kind = "batch" /\ creq[4].stage = "aircraft" /\ creq[4].codes = <<"A3">>
    /\ \E i \in 5 .. Len(creq) : creq[i].kind = "batch" /\ creq[i].stage = "airport"

\* the airport stage ran with the reference data loaded and got the event
\* whose destination is given by the ICAO code only
IcaoEventFetched ==
    /\ ap.pc \in {"dispatch", "done"}
    /\ ap.loaded
    /\ ap.flights = <<AirportEvent({"EPWA"})>>

\* C24: with guild 1 subscribed under the ICAO code and guild 2 under the
\* 3-letter code of one airport of the reference data, a cycle serves both
\* subscriptions with a single batched request; an event whose destination
\* matches only the ICAO form is sent once to each guild (both having a
\* channel, no send failing), and no guild is ever sent it a second time
OneRequestOneNoticePerGuild ==
    /\ ap.loaded /\ ap.pc # "idle" =>
          /\ Len(ap.requests) = 1
          /\ Len(ap.targets) = 1
          /\ ap.targets[1].subs = subscribed
          /\ {"EPWA", "WAW"} \subseteq ap.targets[1].match_codes
    /\ \A x \in subscribed : sends[x]["a"] <= 1
    /\ IcaoEventFetched /\ ap.pc = "done" /\ ap.channels = Guilds
           /\ (\A i \in 1 .. Len(trail) : trail[i].op # "failed") =>
          \A x \in subscribed : sends[x]["a"] = 1

\* the second cycle fetched the same event again after the first had sent it
\* to both guilds: it read the ledger for each guild and sent nothing
OneRequestOneNoticePerGuildWitness ==
    /\ IcaoEventFetched
    /\ ap.pc = "done"
    /\ ap.runs = 2
    /\ subscribed = {1, 3}
    /\ sends[1]["a"] = 1 /\ sends[3]["a"] = 1
    /\ logs[1]["a"] = 1 /\ logs[3]["a"] = 1
    /\ Len(trail) = 2
    /\ \A i \in 1 .. Len(trail) : trail[i].op = "check"

\* poll_once is called and finds no subscription
EmptyCycleStep ==
    /\ nCycleRuns' = nCycleRuns + 1
    /\ cy'.aircraft_batches = <<>> /\ cy'.batches = <<>> /\ cy'.country_codes = <<>>

\* C25: a poll cycle that finds no subscription returns at once without
\* error, having issued no provider request, taken no limiter permit, called
\* _process_flights for nothing, sent no operator notice and written nothing
\* to the ledger
EmptyCycleNoOp ==
    [][EmptyCycleStep =>
          /\ cy'.pc = "done"
          /\ creq' = <<>>
          /\ processed' = <<>>
          /\ notices' = <<>>
          /\ rlNotices'[Len(rlNotices')] = 0
          /\ UNCHANGED <<engineVars, ledger, sends, logs, trail, pf>>]_vars

\* the second cycle of a run found no subscription and has returned
EmptyCycleNoOpWitness ==
    /\ nCycleRuns = 2
    /\ cy.pc = "done"
    /\ cy.aircraft_batches = <<>> /\ cy.batches = <<>> /\ cy.country_codes = <<>>
    /\ creq = <<>>
    /\ notices = <<>>
    /\ reqs = <<>>

\* the finished batch requests of the cycle that failed with a
\* parameter-shaped error
ParamFailedBatches ==
    {i \in 1 .. Len(creq) : /\ creq[i].kind = "batch"
                            /\ creq[i].done
                            /\ ~creq[i].res.raised
                            /\ ~creq[i].res.rate_limited
                            /\ IsParamError(creq[i].res.error)}

\* C26: a batch that fails with a parameter-shaped error is followed by its
\* per-code requests, and no operator notice is sent for the failure of the
\* batch itself
ParamFailureNotEscalated ==
    \A i \in ParamFailedBatches :
        /\ i < Len(creq) => creq[i + 1].kind = "code" /\ creq[i + 1].codes = <<creq[i].codes[1]>>
        /\ \A n \in 1 .. Len(notices) :
              ~(notices[n].kind = "batch_error" /\ notices[n].stage = creq[i].stage
                   /\ notices[n].codes = creq[i].codes)

\* the finished batch requests of the cycle that failed with an error that
\* is neither rate-limited nor parameter-shaped
OtherFailedBatches ==
    {i \in 1 .. Len(creq) : /\ creq[i].kind = "batch"
                            /\ creq[i].done
                            /\ ~creq[i].res.raised
                            /\ creq[i].res.error # NoError
                            /\ ~creq[i].res.rate_limited
                            /\ ~IsParamError(creq[i].res.error)}

\* the guilds that own a subscription of a group of the batch
BatchGuilds(codes) == UNION {GroupGuilds(c) : c \in Range(codes)}

\* the error notices of the cycle for the batch of request i
BatchNoticesOf(i) ==
    {n \in 1 .. Len(notices) : /\ notices[n].kind = "batch_error"
                               /\ notices[n].stage = creq[i].stage
                               /\ notices[n].codes = creq[i].codes}

LastOp == trail'[Len(trail')]

\* the subscriptions of a ledger read that have no row for the identity
NotLogged(c) == c.ids \ c.logged

\* C28: _process_flights reads the ledger once per event and guild, for the
\* subscriptions of that guild; when some of them are not logged it sends one
\* message, addressed to exactly the users of the not-logged subscriptions of
\* that guild, and after a successful send writes ledger rows for exactly
\* those subscriptions and the event's identity; when all are logged, or the
\* send fails, it sends and writes nothing for that event and guild
OneMessageToTheNotLogged ==
    /\ [](pf.pc # "idle" =>
            \A fi \in 1 .. pf.fi : \A gi \in 1 .. Len(GuildOrder(pf.subs)) :
                ( /\ fi < pf.fi \/ gi < pf.gi \/ (gi = pf.gi /\ pf.pc # "check")
                  /\ PassesFilters(pf.sub_type, pf.flights[fi])
                  /\ GuildOrder(pf.subs)[gi] \in pf.channels ) =>
                    \E i \in 1 .. Len(trail) :
                        /\ trail[i].op = "check"
                        /\ trail[i].fi = fi
                        /\ trail[i].guild = GuildOrder(pf.subs)[gi])
    /\ [](\A i \in 1 .. Len(trail) :
            /\ trail[i].op = "check" =>
                  /\ \A j \in 1 .. Len(trail) :
                        (j # i /\ trail[j].op = "check") =>
                            <<trail[j].fi, trail[j].guild>> # <<trail[i].fi, trail[i].guild>>
                  /\ i < Len(trail) =>
                        IF NotLogged(trail[i]) = {} THEN trail[i + 1].op = "check"
                        ELSE /\ trail[i + 1].op \in {"send", "failed"}
                             /\ trail[i + 1].fi = trail[i].fi
                             /\ trail[i + 1].guild = trail[i].guild
                             /\ trail[i + 1].ids = {UserOf(x) : x \in NotLogged(trail[i])}
            /\ trail[i].op \in {"send", "failed"} => i > 1 /\ trail[i - 1].op = "check"
            /\ trail[i].op = "failed" /\ i < Len(trail) => trail[i + 1].op = "check"
            /\ trail[i].op = "send" /\ i < Len(trail) =>
                  /\ trail[i + 1].op = "log"
                  /\ trail[i + 1].fi = trail[i].fi
                  /\ trail[i + 1].guild = trail[i].guild
                  /\ trail[i + 1].ids = NotLogged(trail[i - 1])
            /\ trail[i].op = "log" => i > 1 /\ trail[i - 1].op = "send")
    /\ [][Len(trail') > Len(trail) /\ LastOp.op = "check" =>
            /\ LastOp.ids = {x \in pf.subs : GuildOf(x) = LastOp.guild}
            /\ LastOp.guild \in pf.channels
            /\ LastOp.logged =
                  {x \in LastOp.ids : \E r \in ledger : r.sub = x /\ r.flight = pf.flights[pf.fi].id}]_vars
    /\ [][ledger' # ledger =>
            /\ Len(trail') > Len(trail)
            /\ LastOp.op = "log"
            /\ ledger \subseteq ledger'
            /\ {<<r.sub, r.flight>> : r \in ledger' \ ledger} =
                  {<<x, pf.flights[pf.fi].id>> : x \in LastOp.ids}]_vars
    /\ [][sends' # sends => Len(trail') > Len(trail) /\ LastOp.op = "send"]_vars

\* guild 1 has subscription 1 logged for the event and subscription 2 not:
\* the message went to the user of subscription 2 alone and the row written
\* is for subscription 2
OneMessageToTheNotLoggedWitness ==
    /\ Len(trail) >= 3
    /\ trail[1].op = "check" /\ trail[1].guild = 1
    /\ trail[1].ids = {1, 2} /\ trail[1].logged = {1}
    /\ trail[2].op = "send" /\ trail[2].ids = {"u2"}
    /\ trail[3].op = "log" /\ trail[3].ids = {2}
    /\ \E r \in ledger : r.sub = 2

\* len of the text that begins with the mentions kept, has "and N more" for
\* N = more > 0, and ends with the base
RenderedLen(c) ==
    IF c.kept = <<>> THEN BaseLen(c.code)
    ELSE JoinedLen(c.kept) + (IF c.more > 0 THEN 10 + Digits(c.more) ELSE 0) + 3 + BaseLen(c.code)

\* C29: the text _build_notification_content returns is not empty, is at most
\* `limit` characters long with nothing cut from it, begins with a prefix of
\* the sorted distinct mentions (all of them exactly when they all fit, at
\* least one when there is a recipient), and has "and N more" exactly when
\* mentions were left out, with N = distinct recipients - mentions kept
ContentWithinLimit ==
    nc.content # NoContent =>
        LET c == nc.content
            mentions == SortedSeq({nc.user_ids[i] : i \in 1 .. Len(nc.user_ids)})
            total == Len(mentions)
        IN /\ c.len > 0
           /\ c.len <= ContentLimit
           /\ c.cut = 0
           /\ c.len = RenderedLen(c)
           /\ c.code = nc.code
           /\ Len(c.kept) <= total
           /\ \A i \in 1 .. Len(c.kept) : c.kept[i] = mentions[i]
           /\ total > 0 => Len(c.kept) > 0
           /\ c.more = total - Len(c.kept)
           /\ (c.more = 0) <=> (JoinedLen(mentions) + 3 + BaseLen(nc.code) <= ContentLimit \/ total = 0)

\* six recipients do not fit: two mentions were kept and "and 4 more" appended
ContentWithinLimitWitness ==
    /\ Len(nc.user_ids) = 6
    /\ Len(nc.content.kept) = 2
    /\ nc.content.more = 4

\* the non-empty values a dict holds under the keys, in the order of the keys
RECURSIVE NonemptyTexts(_, _)
NonemptyTexts(event, keys) ==
    IF keys = <<>> THEN <<>>
    ELSE LET here == {i \in 1 .. Len(event) : event[i].key = Head(keys) /\ event[i].value.text # ""
                                               /\ event[i].value.t \in {"str", "int"}
                                               /\ event[i].value # Val("int", "0")}
         IN (IF here = {} THEN <<>> ELSE <<event[CHOOSE i \in here : TRUE].value.text>>)
            \o NonemptyTexts(event, Tail(keys))

\* two dicts with the same items
SameRecord(f, g) == {f[i] : i \in 1 .. Len(f)} = {g[i] : i \in 1 .. Len(g)}

\* C30: the identity of a fetched record is the first non-empty of its
\* explicit identifiers flight_id, id, fr24_id, uuid; without one, its
\* non-empty callsign, flight number, origin, destination and timestamp joined
\* by pipes; without any, a digest that depends on nothing but the items of
\* the record; and two fetches of the same record have the same identity
IdentityStable ==
    \A i \in 1 .. Len(fq.fetched) :
        LET event == fq.fetched[i].flight
            identity == fq.fetched[i].identity
            ids == NonemptyTexts(event, <<"flight_id", "id", "fr24_id", "uuid">>)
            parts == NonemptyTexts(event, <<"callsign", "flight_number", "origin", "destination", "timestamp">>)
        IN /\ ids # <<>> => identity = Identity(<<Head(ids)>>, <<>>)
           /\ ids = <<>> /\ parts # <<>> => identity = Identity(parts, <<>>)
           /\ ids = <<>> /\ parts = <<>> =>
                 /\ identity.pieces = <<>>
                 /\ {<<identity.digest[k].key, identity.digest[k].value>> : k \in 1 .. Len(identity.digest)} =
                        {<<event[k].key, event[k].value.text>> : k \in 1 .. Len(event)}
           /\ \A j \in 1 .. Len(fq.fetched) :
                 SameRecord(event, fq.fetched[j].flight) => fq.fetched[j].identity = identity

\* a record without identifier and without route fields was fetched twice,
\* with its items in two different orders, and has one identity
IdentityStableWitness ==
    /\ Len(fq.fetched) = 2
    /\ fq.fetched[1].flight # fq.fetched[2].flight
    /\ Len(fq.fetched[1].identity.digest) = 2
    /\ fq.fetched[1].identity = fq.fetched[2].identity

\* C31: a pair (subscription, flight identity) that has a row in the ledger
\* has one after every step, cleanup_loop's included, while the subscription
\* is stored
LedgerAppendOnly ==
    [][\A r \in ledger :
          r.sub \in subscribed' => \E q \in ledger' : q.sub = r.sub /\ q.flight = r.flight]_vars

\* C32: no caller holds the lock of a key's limiter while it sleeps in that
\* limiter's wait() or while its request is in flight, and no caller sleeps
\* inside the pool limiter's wait(), which holds that limiter's lock
NoLockAcrossWait ==
    /\ \A k \in Keys : limLock[k] # 0 => cl[limLock[k]].pc \notin SleepPcs \cup {"request"}
    /\ pool_wait # "waiting"

\* C33: no step of a limiter moves its next-permit time or its cooldown end
\* backward; cooldown(seconds) with seconds <= 0 changes nothing, and with
\* seconds > 0 leaves the cooldown end at the later of the one in force and
\* now + seconds, and the next-permit time at or after now + seconds
CooldownNeverBackward ==
    /\ [][\A k \in Keys : /\ lim'[k].next_at >= lim[k].next_at
                          /\ lim'[k].cooldown_until >= lim[k].cooldown_until]_vars
    /\ [][\A seconds \in CooldownArgs :
            RlCooldown(0, seconds) =>
                /\ seconds <= 0 => lim' = lim
                /\ seconds > 0 =>
                      /\ lim'[0].cooldown_until = Max2(lim[0].cooldown_until, now + seconds)
                      /\ lim'[0].next_at >= now + seconds
                /\ lim'[0].recent = lim[0].recent]_vars

\* a cooldown of CooldownSeconds issued at time 1 is in force at time 2 after
\* a second cooldown call and a permit granted by wait()
CooldownNeverBackwardWitness ==
    /\ nAdmin >= 2
    /\ now = 2
    /\ lim[0].cooldown_until = 1 + CooldownSeconds
    /\ lastPermit[0] # None

\* the places (batch, position) at which a code stands in a list of batches
PlacesIn(batches, code) ==
    {<<b, i>> \in (1 .. Len(batches)) \X (1 .. MaxBatchSubs) :
        i <= Len(batches[b]) /\ batches[b][i] = code}

\* C34: every aircraft code of the subscriptions stands in exactly one
\* aircraft batch and every 3- or 4-letter airport request code in exactly one
\* airport batch, the batches hold nothing else, no batch is empty or longer
\* than its batch size, and every 2-letter code is the only code of exactly
\* one request and stands in no batch
BatchesPartition ==
    bt.built =>
        LET aircraft == {bt.subs[i].code : i \in {j \in 1 .. Len(bt.subs) : bt.subs[j].type = "aircraft"}}
            airports == {bt.subs[i].code : i \in {j \in 1 .. Len(bt.subs) : bt.subs[j].type = "airport"}}
            codes(batches) == UNION {Range(batches[b]) : b \in 1 .. Len(batches)}
        IN /\ codes(bt.aircraft_batches) = aircraft
           /\ \A code \in aircraft : Cardinality(PlacesIn(bt.aircraft_batches, code)) = 1
           /\ \A code \in codes(bt.batches) : Len(code) \in {3, 4}
           /\ \A code \in airports : Len(code) \in {3, 4} =>
                 \E request_code \in codes(bt.batches) :
                     request_code = code \/ [icao |-> code, iata |-> request_code] \in AirportRefs
           /\ \A code \in codes(bt.batches) :
                 /\ Cardinality(PlacesIn(bt.batches, code)) = 1
                 /\ \E sub \in airports : sub = code \/ [icao |-> sub, iata |-> code] \in AirportRefs
           /\ \A b \in 1 .. Len(bt.aircraft_batches) :
                 Len(bt.aircraft_batches[b]) \in 1 .. AircraftBatchSize
           /\ \A b \in 1 .. Len(bt.batches) : Len(bt.batches[b]) \in 1 .. AirportBatchSize
           /\ \A code \in airports : Len(code) = 2 =>
                 /\ Cardinality({r \in 1 .. Len(bt.requests) : code \in Range(bt.requests[r])}) = 1
                 /\ \A r \in 1 .. Len(bt.requests) :
                       code \in Range(bt.requests[r]) => bt.requests[r] = <<code>>
                 /\ code \notin codes(bt.batches) \cup codes(bt.aircraft_batches)
           /\ Len(bt.requests) = Len(bt.aircraft_batches) + Len(bt.batches)
                                    + Cardinality({code \in airports : Len(code) = 2})

\* three aircraft codes went into two batches, beside a country code that is
\* requested alone
BatchesPartitionWitness ==
    /\ bt.built
    /\ Len(bt.aircraft_batches) = 2
    /\ Len(bt.aircraft_batches[1]) = AircraftBatchSize
    /\ bt.country_codes = <<"PL">>
    /\ bt.requests[3] = <<"PL">>

\* the event belongs to the group of the batch: its type code, the first
\* non-empty of its type and model fields in upper case, is the group's code,
\* or one of its destination codes is among the group's match codes
BelongsTo(kind, targets, code, event) ==
    IF kind = "aircraft"
    THEN \/ event.type # "" /\ Upper(event.type) = code
         \/ event.type = "" /\ event.model # "" /\ Upper(event.model) = code
    ELSE \E t \in 1 .. Len(targets) :
            targets[t].request_code = code /\ targets[t].match_codes \cap event.dest_codes # {}

\* C35: after a successful batched response _process_flights is called once
\* for each group of the batch that some event belongs to, with exactly the
\* events that belong to it, in the order of the response, and for no other
\* group; an event that belongs to no group of the batch is in no call
DeliveredToMatchingGroups ==
    dx.done =>
        /\ \A j \in 1 .. Len(dx.calls) :
              /\ dx.calls[j].code \in Range(dx.batch)
              /\ dx.calls[j].flights # <<>>
              /\ \A i \in 1 .. Len(dx.calls) : i # j => dx.calls[i].code # dx.calls[j].code
        /\ \A code \in Range(dx.batch) :
              LET mine == {n \in 1 .. Len(dx.flights) : BelongsTo(dx.kind, dx.targets, code, dx.flights[n])}
                  calls == {j \in 1 .. Len(dx.calls) : dx.calls[j].code = code}
              IN /\ (mine # {}) <=> (calls # {})
                 /\ \A j \in calls :
                       /\ Len(dx.calls[j].flights) = Cardinality(mine)
                       /\ \A m \in 1 .. Len(dx.calls[j].flights) :
                             \E n \in mine :
                                 /\ dx.calls[j].flights[m] = dx.flights[n]
                                 /\ Cardinality({x \in mine : x <= n}) = m

\* the response to the batch of the 3-letter target alone, built without
\* reference data, held an event for the ICAO code and one for the 3-letter
\* code: one call was made, with the second event only
DeliveredToMatchingGroupsWitness ==
    /\ dx.done
    /\ dx.kind = "airport"
    /\ dx.batch = <<"WAW">>
    /\ Len(dx.flights) = 2
    /\ dx.flights[1].dest_codes = {"EPWA"}
    /\ dx.flights[2].dest_codes = {"WAW"}
    /\ Len(dx.calls) = 1
    /\ dx.calls[1].flights = <<dx.flights[2]>>

\* C36: no request of _call is issued with a key that is parked at the time
\* the request is issued
NoRequestWithParkedKey == \A i \in 1 .. Len(reqs) : ~reqs[i].parked

\* what the ledger and the steps of the call show of a failed delivery: a row
\* is written only after a message was sent, the rows of a call follow a sent
\* message for the same event and guild, and no step is taken for a guild
\* without a channel
RowsFollowSends ==
    /\ \A r \in ledger : sends[r.sub][r.flight] >= 1
    /\ \A i \in 1 .. Len(trail) :
          trail[i].op = "log" =>
              /\ i > 1
              /\ trail[i - 1].op = "send"
              /\ trail[i - 1].fi = trail[i].fi
              /\ trail[i - 1].guild = trail[i].guild
    /\ pf.pc # "idle" => \A i \in 1 .. Len(trail) : trail[i].guild \in pf.channels

\* the events and guilds of the call that _process_flights has to look at
Deliverable(p) ==
    {<<fi, guild>> \in (1 .. Len(p.flights)) \X {GuildOf(x) : x \in p.subs} :
        PassesFilters(p.sub_type, p.flights[fi]) /\ guild \in p.channels}

\* C37: a failed send, or a guild without a channel, writes no ledger row;
\* the call goes on to the next guild and event, so that it ends only when
\* the ledger was read for every event and guild with a channel; and after
\* the failure the ledger has no row of the event for the subscriptions
\* concerned, so that the event is still to be notified to them
FailedSendWritesNothing ==
    /\ []RowsFollowSends
    /\ [][PfSend(FALSE) =>
              /\ ledger' = ledger
              /\ FetchLoggedSubscriptionIds(ledger', FlightIdAt(pf), pf.to_notify) = {}
              /\ pf'.pc \in {"idle", "check"}]_vars
    /\ [][pf.pc # "idle" /\ pf'.pc = "idle" =>
              \A d \in Deliverable(pf) :
                  \E i \in 1 .. Len(trail') :
                      /\ trail'[i].op = "check"
                      /\ trail'[i].fi = d[1]
                      /\ trail'[i].guild = d[2]]_vars

\* the send to guild 1 failed, the call went on to guild 2, whose message was
\* sent and logged, and the ledger has no row of the event for guild 1
FailedSendWritesNothingWitness ==
    /\ Len(trail) >= 5
    /\ trail[2].op = "failed" /\ trail[2].guild = 1
    /\ trail[4].op = "send" /\ trail[4].guild = 2 /\ trail[4].fi = trail[2].fi
    /\ trail[5].op = "log"
    /\ ledger # {}
    /\ \A r \in ledger : GuildOf(r.sub) = 2

\* C38: a set_enabled or set_interval call that leaves the enabled flag and
\* the interval as they were does not end the sleep between two cycles early
NoChangeKeepsSleep ==
    [][(/\ lp.pc = "sleep" /\ lp'.pc = "sleep"
        /\ enabled' = enabled
        /\ interval_seconds' = interval_seconds) => lp'.woken = lp.woken]_vars

\* the time from the start of the previous cycle to the return of the sleep
SinceCycleStart == lp.elapsed + lp.slept

\* the bounds of poll_loop on the start of the next cycle, for the interval
\* in force since the previous cycle ended
WithinIntervalAndJitter ==
    /\ SinceCycleStart >= interval_seconds
    /\ SinceCycleStart <= Max2(interval_seconds, lp.elapsed) + PollJitter
    /\ lp.elapsed >= interval_seconds => lp.slept <= PollJitter

\* C39: when neither the enabled flag nor the interval changes during the
\* sleep, the next cycle starts at least the interval after the previous one
\* started and at most interval + jitter after it, or at most jitter after
\* its end when it ran longer than the interval; the interval is the one in
\* force when the cycle ended
NextCycleTiming ==
    [][(lp.pc = "sleep" /\ lp'.pc = "cycle" /\ ~lp.changed) => WithinIntervalAndJitter]_vars

\* the same bounds for a sleep during which set_enabled and set_interval are
\* not called
NextCycleTimingUncalled ==
    [][(lp.pc = "sleep" /\ lp'.pc = "cycle" /\ lp.called_at = None) => WithinIntervalAndJitter]_vars

====
